---------------------------- MODULE Spec2Model ----------------------------
(***************************************************************************)
(* A model of switch-input: the rule matcher (MatcherService), the         *)
(* buffered, rotated action log (LoggerService) and the glue around them.  *)
(*                                                                         *)
(* Go strings that the program inspects (application names, window titles) *)
(* are sequences of one-character strings, so that ToLower, TrimSpace,     *)
(* Contains, Split and ReplaceAll are computed rather than assumed.        *)
(* Strings the program only carries around (input ids, log levels) are     *)
(* plain TLA+ strings.                                                     *)
(***************************************************************************)
EXTENDS Integers, Sequences, FiniteSets, TLC

(***************************************************************************)
(* strings package, as far as the matcher uses it                          *)
(***************************************************************************)
UpperLetters == <<"A", "B", "C", "D", "E", "F", "G", "H", "I", "J", "K", "L", "M",
                  "N", "O", "P", "Q", "R", "S", "T", "U", "V", "W", "X", "Y", "Z">>

LowerLetters == <<"a", "b", "c", "d", "e", "f", "g", "h", "i", "j", "k", "l", "m",
                  "n", "o", "p", "q", "r", "s", "t", "u", "v", "w", "x", "y", "z">>

LowerChar(c) ==
    IF \E i \in DOMAIN UpperLetters : UpperLetters[i] = c
    THEN LowerLetters[CHOOSE i \in DOMAIN UpperLetters : UpperLetters[i] = c]
    ELSE c

\* strings.ToLower
ToLower(s) == [i \in 1..Len(s) |-> LowerChar(s[i])]

IsSpace(c) == c \in {" ", "\t"}

RECURSIVE TrimLeft(_)
TrimLeft(s) == IF s # <<>> /\ IsSpace(Head(s)) THEN TrimLeft(Tail(s)) ELSE s

RECURSIVE TrimRight(_)
TrimRight(s) ==
    IF s # <<>> /\ IsSpace(s[Len(s)]) THEN TrimRight(SubSeq(s, 1, Len(s) - 1)) ELSE s

\* strings.TrimSpace
TrimSpace(s) == TrimRight(TrimLeft(s))

HasPrefix(s, p) == Len(p) <= Len(s) /\ SubSeq(s, 1, Len(p)) = p

\* strings.Contains: the empty string is contained in every string
Contains(s, sub) ==
    \E i \in 0..(Len(s) - Len(sub)) : SubSeq(s, i + 1, i + Len(sub)) = sub

\* strings.Split(s, sep) with a one-character separator: n separators give
\* n+1 parts, so Split("", ",") is the one-element list [""]
RECURSIVE SplitFrom(_, _, _)
SplitFrom(s, sep, cur) ==
    IF s = <<>> THEN <<cur>>
    ELSE IF Head(s) = sep THEN <<cur>> \o SplitFrom(Tail(s), sep, <<>>)
    ELSE SplitFrom(Tail(s), sep, Append(cur, Head(s)))

Split(s, sep) == SplitFrom(s, sep, <<>>)

\* strings.ReplaceAll(s, old, new) for a non-empty old: non-overlapping
\* occurrences, left to right
RECURSIVE ReplaceAll(_, _, _)
ReplaceAll(s, old, new) ==
    IF s = <<>> THEN <<>>
    ELSE IF HasPrefix(s, old)
         THEN new \o ReplaceAll(SubSeq(s, Len(old) + 1, Len(s)), old, new)
         ELSE <<Head(s)>> \o ReplaceAll(Tail(s), old, new)

(***************************************************************************)
(* Rule, Config, WindowInfo                                                *)
(***************************************************************************)
\* a nil *Rule, *Config or *WindowInfo
Nil == [nil |-> TRUE]

Rule(app, window, input, enabled, priority) ==
    [app |-> app, window |-> window, input |-> input,
     enabled |-> enabled, priority |-> priority]

WindowInfo(appName, windowName) == [appName |-> appName, windowName |-> windowName]

(***************************************************************************)
(* MatcherService: the rule index                                          *)
(***************************************************************************)
Swap(rs, i, j) == [rs EXCEPT ![i] = rs[j], ![j] = rs[i]]

\* the inner loop of the sort: j runs from i+1 to the end (0-based i, j of
\* the code are i-1, j-1 here)
RECURSIVE SortInner(_, _, _)
SortInner(rs, i, j) ==
    IF j > Len(rs) THEN rs
    ELSE SortInner(IF rs[i].priority > rs[j].priority THEN Swap(rs, i, j) ELSE rs,
                   i, j + 1)

RECURSIVE SortOuter(_, _)
SortOuter(rs, i) ==
    IF i >= Len(rs) THEN rs ELSE SortOuter(SortInner(rs, i, i + 1), i + 1)

\* a plausible bug: the comparison reversed
SortRulesDescending(rs) ==
    LET n == Len(rs)
        asc == SortOuter(rs, 1)
    IN [i \in 1..n |-> asc[n + 1 - i]]

\* the per-key sort of buildRuleMap
SortRules(rs) == SortOuter(rs, 1)

\* the non-empty trimmed comma-separated tokens of a rule's app pattern, in order
RECURSIVE TrimmedNonEmpty(_)
TrimmedNonEmpty(parts) ==
    IF parts = <<>> THEN <<>>
    ELSE LET a == TrimSpace(Head(parts))
         IN (IF a # <<>> THEN <<a>> ELSE <<>>) \o TrimmedNonEmpty(Tail(parts))

AppTokens(rule) == TrimmedNonEmpty(Split(rule.app, ","))

\* ms.ruleMap[appName] = append(ms.ruleMap[appName], rule) for each token
RECURSIVE AppendUnder(_, _, _)
AppendUnder(m, tokens, rule) ==
    IF tokens = <<>> THEN m
    ELSE LET k == Head(tokens)
             m1 == IF k \in DOMAIN m
                   THEN [m EXCEPT ![k] = Append(m[k], rule)]
                   ELSE [x \in DOMAIN m \cup {k} |-> IF x = k THEN <<rule>> ELSE m[x]]
         IN AppendUnder(m1, Tail(tokens), rule)

\* a plausible bug: the loop without its test of rule.Enabled
RECURSIVE CollectRulesAll(_, _)
CollectRulesAll(m, rules) ==
    IF rules = <<>> THEN m
    ELSE CollectRulesAll(AppendUnder(m, AppTokens(Head(rules)), Head(rules)), Tail(rules))

\* the first loop of buildRuleMap: enabled rules in config order
RECURSIVE CollectRules(_, _)
CollectRules(m, rules) ==
    IF rules = <<>> THEN m
    ELSE CollectRules(IF Head(rules).enabled
                      THEN AppendUnder(m, AppTokens(Head(rules)), Head(rules))
                      ELSE m,
                      Tail(rules))

EmptyMap == [x \in {} |-> <<>>]

\* buildRuleMap: a fresh map, filled, then each key's list sorted
buildRuleMap(cfg) ==
    IF cfg = Nil THEN EmptyMap
    ELSE LET m == CollectRules(EmptyMap, cfg.rules)
         IN [k \in DOMAIN m |-> SortRules(m[k])]

(***************************************************************************)
(* MatcherService: matching                                                *)
(***************************************************************************)
windowNameMatches(currentWindowName, ruleWindowName) ==
    IF ruleWindowName = <<>> THEN TRUE
    ELSE LET cur == ToLower(TrimSpace(currentWindowName))
             pat == ToLower(TrimSpace(ruleWindowName))
         IN IF Contains(pat, <<"*">>)
            THEN LET pattern == ReplaceAll(pat, <<"*">>, <<".", "*">>)
                 IN Contains(cur, ReplaceAll(pattern, <<".", "*">>, <<>>))
            ELSE Contains(cur, pat)

\* a plausible bug: the loop over the pattern's space-separated parts is left out
appNameMatchesNoTokens(currentAppName, ruleAppName) ==
    LET cur == ToLower(TrimSpace(currentAppName))
        pat == ToLower(TrimSpace(ruleAppName))
    IN \/ cur = pat
       \/ Contains(cur, pat)
       \/ Contains(pat, cur)

appNameMatches(currentAppName, ruleAppName) ==
    LET cur == ToLower(TrimSpace(currentAppName))
        pat == ToLower(TrimSpace(ruleAppName))
        ruleParts == Split(pat, " ")
    IN \/ cur = pat
       \/ Contains(cur, pat)
       \/ Contains(pat, cur)
       \/ \E i \in DOMAIN ruleParts :
              TrimSpace(ruleParts[i]) # <<>> /\ Contains(cur, ruleParts[i])

\* the first rule of a key's list whose window pattern matches, or Nil
RECURSIVE FirstWindowMatch(_, _)
FirstWindowMatch(rules, window) ==
    IF rules = <<>> THEN Nil
    ELSE IF windowNameMatches(window.windowName, Head(rules).window) THEN Head(rules)
    ELSE FirstWindowMatch(Tail(rules), window)

\* the exact phase of MatchWindow
ExactMatch(m, window) ==
    IF window.appName \in DOMAIN m THEN FirstWindowMatch(m[window.appName], window)
    ELSE Nil

\* The fuzzy phase ranges over the map. Go visits the keys of a map in an
\* unspecified order that differs from one range statement to the next, so
\* any key that fuzzy-matches and holds a window-matching rule can be the
\* first one met: the loop returns one of these rules, or nil if there is none.
FuzzyMatches(m, window) ==
    LET hits == {FirstWindowMatch(m[k], window) :
                     k \in {x \in DOMAIN m : appNameMatches(window.appName, x)}} \ {Nil}
    IN IF hits = {} THEN {Nil} ELSE hits

\* every value MatchWindow can return for this index and this observation
MatchWindowResults(m, window) ==
    IF window = Nil THEN {Nil}
    ELSE IF ExactMatch(m, window) # Nil THEN {ExactMatch(m, window)}
    ELSE FuzzyMatches(m, window)


(***************************************************************************)
(* Config values and the persisted config file                             *)
(***************************************************************************)
GeneralConfig(autoStart, checkInterval, switchDelay, enableLog, logLevel, notify) ==
    [autoStart |-> autoStart, checkInterval |-> checkInterval,
     switchDelay |-> switchDelay, enableLogging |-> enableLog,
     logLevel |-> logLevel, showNotifications |-> notify]

Config(rules, general, lastModified) ==
    [rules |-> rules, general |-> general, lastModified |-> lastModified]

\* the General section createDefaultConfig writes
DefaultGeneral == GeneralConfig(FALSE, 500, 100, TRUE, "info", TRUE)

\* the rules createDefaultConfig writes; Enabled, Priority 1, no window pattern
DefaultRules ==
    << Rule(<<"c", "o", "m", ".", "a", "p", "p", "l", "e", ".", "S", "a", "f", "a", "r", "i">>,
            <<>>, "com.tencent.inputmethod.wetype.pinyin", TRUE, 1),
       Rule(<<"c", "o", "m", ".", "g", "o", "o", "g", "l", "e", ".", "C", "h", "r", "o", "m", "e">>,
            <<>>, "com.tencent.inputmethod.wetype.pinyin", TRUE, 1),
       Rule(<<"c", "o", "m", ".", "a", "p", "p", "l", "e", ".", "T", "e", "r", "m", "i", "n", "a", "l">>,
            <<>>, "com.apple.keylayout.ABC", TRUE, 1),
       Rule(<<"c", "o", "m", ".", "m", "i", "c", "r", "o", "s", "o", "f", "t", ".", "V", "S", "C", "o", "d", "e">>,
            <<>>, "com.apple.keylayout.ABC", TRUE, 1) >>

\* the Config literal of createDefaultConfig (LastModified left at its zero value)
DefaultConfig == Config(DefaultRules, DefaultGeneral, "")

\* fmt.Sprintf("%d", os.Getpid()): one fixed string for the life of the process
PidString == "pid"

\* The file at configPath: absent, a JSON document, or bytes that do not
\* parse (written by hand, or left behind by a write that failed midway).
AbsentFile == [kind |-> "absent"]

GarbageFile == [kind |-> "garbage"]

\* a byte that is not valid UTF-8, and U+FFFD, the replacement character
BadByte == "#"

ReplacementChar == "?"

\* encoding/json reads a quoted string with invalid UTF-8 without an error:
\* each invalid byte becomes U+FFFD
DecodeString(s) == [i \in 1..Len(s) |-> IF s[i] = BadByte THEN ReplacementChar ELSE s[i]]

\* the rules of a document as json.Unmarshal stores them
DecodeRules(rules) ==
    [i \in 1..Len(rules) |->
        [rules[i] EXCEPT !.app = DecodeString(rules[i].app),
                         !.window = DecodeString(rules[i].window)]]

\* json.MarshalIndent of a Config: every field is written (no omitempty),
\* strings coerced to valid UTF-8
MarshalIndent(cfg) ==
    [kind |-> "json",
     doc |-> [rules |-> DecodeRules(cfg.rules), general |-> cfg.general,
              lastModified |-> cfg.lastModified]]

\* a plausible bug: the error of json.Unmarshal is dropped, and bytes that do
\* not parse give the zero Config
UnmarshalLenient(file) ==
    IF file.kind = "json"
    THEN [ok |-> TRUE,
          config |-> Config(DecodeRules(file.doc.rules), file.doc.general,
                            file.doc.lastModified)]
    ELSE [ok |-> TRUE, config |-> Config(<<>>, GeneralConfig(FALSE, 0, 0, FALSE, "", FALSE), "")]

\* json.Unmarshal into a zero Config: ok with the document's fields, or an error
Unmarshal(file) ==
    IF file.kind = "json"
    THEN [ok |-> TRUE,
          config |-> Config(DecodeRules(file.doc.rules), file.doc.general,
                            file.doc.lastModified)]
    ELSE [ok |-> FALSE]

\* a plausible bug: the defaults are assigned without the tests for zero
FillDefaultsAlways(cfg) ==
    [cfg EXCEPT !.general = [cfg.general EXCEPT !.checkInterval = 500,
                                                 !.switchDelay = 100,
                                                 !.logLevel = "info"]]

\* the defaults LoadConfig fills in for zero-valued settings
FillDefaults(cfg) ==
    LET g == cfg.general
        g1 == IF g.checkInterval = 0 THEN [g EXCEPT !.checkInterval = 500] ELSE g
        g2 == IF g1.switchDelay = 0 THEN [g1 EXCEPT !.switchDelay = 100] ELSE g1
        g3 == IF g2.logLevel = "" THEN [g2 EXCEPT !.logLevel = "info"] ELSE g2
    IN [cfg EXCEPT !.general = g3]

\* ioutil.WriteFile opens the file with O_TRUNC and then writes: a failure to
\* open leaves the file as it was, a failure while writing leaves a
\* truncated or partial file, which no longer parses.
WriteOutcomes == {"ok", "open_failed", "write_failed"}

WriteFile(file, data, outcome) ==
    CASE outcome = "ok" -> data
      [] outcome = "open_failed" -> file
      [] outcome = "write_failed" -> GarbageFile

(***************************************************************************)
(* Bounds and the values the operations are tried on                       *)
(***************************************************************************)
\* longest rule list of a persisted config in the matching runs
MaxRules == 3

\* longest rule list of a config in the load/save runs
MaxCfgRules == 2

\* input ids name a rule's place in its list, which keeps rules that agree
\* on every matched field apart
InputIds == <<"in1", "in2", "in3", "in4", "in5">>

WindowPatterns == { <<>>, <<"w">> }

Priorities == {1, 2}

\* a rule without its input id
RuleShapes ==
    { Rule(<<"a", "b">>, w, "", TRUE, p) : w \in WindowPatterns, p \in Priorities }
    \cup { Rule(<<"a">>, <<>>, "", TRUE, 1), Rule(<<"a">>, <<"w">>, "", TRUE, 2),
           Rule(<<" ", "b", ",", "A", "B">>, <<>>, "", TRUE, 2),
           Rule(<<"a", "b">>, <<>>, "", FALSE, 1) }

Labelled(shapes) == [i \in 1..Len(shapes) |-> [shapes[i] EXCEPT !.input = InputIds[i]]]

RuleListsOver(shapes, n) ==
    UNION { { Labelled(l) : l \in [1..k -> shapes] } : k \in 0..n }

RuleLists == RuleListsOver(RuleShapes, MaxRules)

CfgRuleShapes ==
    { Rule(<<"a", "b">>, <<>>, "", TRUE, 1), Rule(<<"a">>, <<"w">>, "", FALSE, 2) }

\* settings with the numeric fields and the log level left unset
CfgGenerals == { GeneralConfig(FALSE, 0, 0, TRUE, "", FALSE) }

\* configs handed to SaveConfig, and found on disk, in the load/save runs
CfgChoices ==
    { Config(r, g, "old") : r \in RuleListsOver(CfgRuleShapes, MaxCfgRules), g \in CfgGenerals }

Observations ==
    { WindowInfo(a, w) : a \in { <<"a", "b">>, <<"b">> }, w \in { <<"W", " ">>, <<"v">> } }
    \cup { Nil }

\* goroutines that call into the matcher: the application's own (startup,
\* then the poll loop) and one serving a UI binding
Threads == {"app", "ui"}

NoThread == "none"

(***************************************************************************)
(* State                                                                   *)
(***************************************************************************)
VARIABLES
    config,       \* ms.config: a Config, or Nil before the first load
    ruleMap,      \* ms.ruleMap
    configFile,   \* the file at ms.configPath
    ruleMutex,    \* the goroutine holding ms.ruleMutex for writing, or NoThread
    pc,           \* where each goroutine stands in a matcher call
    saveArg,      \* the *Config a goroutine is saving, Nil outside SaveConfig
    saveRet,      \* where that SaveConfig call returns to
    result,       \* outcome of each goroutine's last matcher call
    window,       \* the observation of the latest MatchWindow call
    matched,      \* what that call returned
    matchedOn,    \* the index that call ran against
    installed,    \* history: the config the latest successful SaveConfig or LoadConfig installed
    readers,      \* the goroutines holding ms.ruleMutex for reading inside MatchWindow
    building,     \* the rules of ms.config a running buildRuleMap has still to collect
    logBuffer,    \* ls.logBuffer: the entries not yet flushed, oldest first
    bufferMutex,  \* the goroutine holding ls.bufferMutex, or NoThread
    logFile,      \* ls.logFile: "nil", "open" or "closed"
    liveLog,      \* the file at ls.logPath
    rotatedLogs,  \* the numbered siblings of the live file, by number
    enableLogging, \* ls.enableLogging
    flushTicker,  \* ls.flushTicker: "nil", "running" or "stopped"
    stopChan,     \* ls.stopChan: "open" or "closed"
    lpc,          \* where each goroutine stands in a logger call
    lret,         \* what the flush a goroutine is in returns to
    lentry,       \* the entry a goroutine's log call is about to append
    nextEntry,    \* the next entry to be created
    generations,  \* history: the content of every live file renamed to .1, oldest first
    lastFlush,    \* history: how the latest flush with a non-empty buffer went
    ioFaults,     \* whether the file system may fail the logger's calls in this run
    lastWindow,   \* ws.lastWindow: the observation last recorded, or Nil
    wsStopChan,   \* ws.stopChan: "open" or "closed"
    loop,         \* where each goroutine running StartMonitoring stands
    isRunning,    \* a.isRunning
    cbWindow,     \* the observation each goroutine's running callback was handed
    polled,       \* history: what the latest tick's query answered
    ticks,        \* history: the ticks taken so far
    stopTick,     \* history: the ticks taken when the stop channel was closed
    callbacks,    \* history: the invocations of ws.onWindowChange so far
    ruleCall,     \* history: the latest UpdateRule or DeleteRule call, and how many there were
    recent,       \* what the latest GetRecentLogs call was asked and returned
    stats,        \* what the latest GetLogStats call returned
    skipped,      \* history: the record calls that returned at once, logging being disabled
    cleared,      \* history: the latest ClearLogs call, how it returned and how many there were
    cbStep,       \* the statement of onWindowChange or onRuleMatch the poll loop's callback is at
    lastSwitch,   \* history: the latest call of inputService.SwitchInput, and how many there were
    switchLog     \* history: the latest entry LogInputSwitch created, and the call it reports

matcherVars == <<config, ruleMap, configFile, ruleMutex, pc, saveArg, saveRet, result,
                 window, matched, matchedOn, installed, readers, building>>

loggerVars == <<logBuffer, bufferMutex, logFile, liveLog, rotatedLogs, enableLogging,
                flushTicker, stopChan, lpc, lret, lentry, nextEntry, generations,
                lastFlush, ioFaults>>

windowVars == <<lastWindow, wsStopChan, loop, isRunning, cbWindow, polled, ticks, stopTick,
               callbacks>>

\* what the application's callbacks and its ClearLogs binding keep
glueVars == <<cleared, cbStep, lastSwitch, switchLog>>

callVars == <<ruleCall, recent, stats, skipped, glueVars>>

\* what the matcher's operations leave alone, and what the logger's do
nonMatcherVars == <<loggerVars, windowVars, callVars>>

nonLoggerVars == <<matcherVars, windowVars, callVars>>

vars == <<matcherVars, loggerVars, windowVars, callVars>>

\* no MatchWindow call yet
NoCall == [nocall |-> TRUE]

(***************************************************************************)
(* LoggerService: sizes, files                                             *)
(*                                                                         *)
(* A log entry is a number, its place in the order of creation. A file is  *)
(* the sequence of the entries written to it, and its size is counted in   *)
(* entries. The program's sizes (100 entries, 10 MiB, 5 files) are scaled  *)
(* down, keeping what the program's sizes give: a full buffer is far       *)
(* smaller than the rotation threshold.                                    *)
(***************************************************************************)
\* ls.bufferSize (100 in NewLoggerService)
bufferSize == 2

\* ls.maxLogFiles (5 in NewLoggerService)
maxLogFiles == 3

\* ls.maxLogSize (10 MiB in NewLoggerService): more than one buffer load
maxLogSize == bufferSize + 1

\* entries created in a run on a file system that does not fail
MaxEntries == 7

\* entries created in a run on a file system that may fail
MaxFaultyEntries == 3

\* record calls counted while logging is disabled
MaxSkipped == 3

NoFile == [exists |-> FALSE, data |-> <<>>]

File(data) == [exists |-> TRUE, data |-> data]

\* a live file left by an earlier run, at the rotation threshold; its entries
\* are older than any this run creates
OldLog == File([i \in 1..maxLogSize |-> i])

\* the numbers a sibling <base>.<k><ext> can bear in the model: one more than
\* the program is meant to use
SiblingNames == 1..(maxLogFiles + 1)

NoSiblings == [k \in SiblingNames |-> NoFile]

\* the siblings a run of the program that rotated twice has left: .1 and .2,
\* with entries older than any of this run (0 and below are not created here)
OldSiblings == [NoSiblings EXCEPT ![1] = File(<<0>>), ![2] = File(<<0, 0>>)]

\* goroutines that call into the logger: the application's own (startup,
\* shutdown), the poll loop, and flushRoutine
Loggers == {"app", "poll"}

FlushRoutine == "timer"

LogThreads == Loggers \cup {FlushRoutine}

\* NewLoggerService, with the given live file and siblings on disk
LoggerInit(files, siblings, faults) ==
    /\ ioFaults \in faults
    /\ logBuffer = <<>>
    /\ bufferMutex = NoThread
    /\ logFile = "nil"
    /\ liveLog \in files
    /\ rotatedLogs \in siblings
    /\ enableLogging = TRUE
    /\ flushTicker = "nil"
    /\ stopChan = "open"
    /\ lpc = [t \in LogThreads |-> "idle"]
    /\ lret = [t \in LogThreads |-> "idle"]
    /\ lentry = [t \in LogThreads |-> 0]
    /\ nextEntry = maxLogSize + 1
    /\ generations = <<>>
    /\ lastFlush = "none"

\* NewMatcherService, with the given file on disk
MatcherInit(files) ==
    /\ config = Nil
    /\ ruleMap = EmptyMap
    /\ configFile \in files
    /\ ruleMutex = NoThread
    /\ pc = [t \in Threads |-> "idle"]
    /\ saveArg = [t \in Threads |-> Nil]
    /\ saveRet = [t \in Threads |-> "idle"]
    /\ result = [t \in Threads |-> "none"]
    /\ window = Nil
    /\ matched = Nil
    /\ matchedOn = NoCall
    /\ installed = Nil
    /\ readers = {}
    /\ building = <<>>

\* goroutines that run StartMonitoring: the one startup starts and the one a
\* SetRunning(true) starts
Loops == {"loop1", "loop2"}

\* NewWindowService and NewApp: no observation yet, no loop running
WindowInit ==
    /\ lastWindow = Nil
    /\ wsStopChan = "open"
    /\ loop = [l \in Loops |-> "none"]
    /\ isRunning = FALSE
    /\ cbWindow = [l \in Loops |-> Nil]
    /\ polled = NoCall
    /\ ticks = 0
    /\ stopTick = 0
    /\ callbacks = 0

\* no call of the bound methods yet
CallInit ==
    /\ ruleCall = [n |-> 0]
    /\ recent = NoCall
    /\ stats = NoCall
    /\ skipped = 0
    /\ cleared = [n |-> 0]
    /\ cbStep = "none"
    /\ lastSwitch = [n |-> 0]
    /\ switchLog = [entry |-> 0]

(***************************************************************************)
(* MatcherService operations                                               *)
(***************************************************************************)
\* LoadConfig up to the stat: the lock is taken; when the file does not exist
\* createDefaultConfig calls SaveConfig, which starts by taking the same lock
LoadConfigBegin(t) ==
    /\ pc[t] = "idle"
    /\ ruleMutex = NoThread /\ readers = {}
    /\ ruleMutex' = t
    /\ IF configFile.kind = "absent"
       THEN /\ pc' = [pc EXCEPT ![t] = "SaveLock"]
            /\ saveArg' = [saveArg EXCEPT ![t] = DefaultConfig]
            /\ saveRet' = [saveRet EXCEPT ![t] = "LoadRead"]
       ELSE /\ pc' = [pc EXCEPT ![t] = "LoadRead"]
            /\ UNCHANGED <<saveArg, saveRet>>
    /\ result' = [result EXCEPT ![t] = "none"]
    /\ UNCHANGED <<config, ruleMap, configFile, window, matched, matchedOn>>
    /\ UNCHANGED <<installed, readers, building>>
    /\ UNCHANGED nonMatcherVars

\* LoadConfig from ReadFile to the return; the deferred Unlock runs on every path
LoadConfigRead(t) ==
    /\ pc[t] = "LoadRead"
    /\ \E readOK \in BOOLEAN :
         LET parsed == Unmarshal(configFile)
         IN IF readOK /\ configFile.kind # "absent" /\ parsed.ok
            THEN /\ config' = FillDefaults(parsed.config)
                 /\ ruleMap' = buildRuleMap(FillDefaults(parsed.config))
                 /\ installed' = FillDefaults(parsed.config)
                 /\ result' = [result EXCEPT ![t] = "ok"]
            ELSE /\ result' = [result EXCEPT ![t] = "error"]
                 /\ UNCHANGED <<config, ruleMap, installed>>
    /\ ruleMutex' = NoThread
    /\ pc' = [pc EXCEPT ![t] = "idle"]
    /\ UNCHANGED <<configFile, saveArg, saveRet, window, matched, matchedOn>>
    /\ UNCHANGED <<readers, building>>
    /\ UNCHANGED nonMatcherVars

\* a caller hands SaveConfig a config of its own
CallSaveConfig(t, cfg) ==
    /\ pc[t] = "idle"
    /\ pc' = [pc EXCEPT ![t] = "SaveLock"]
    /\ saveArg' = [saveArg EXCEPT ![t] = cfg]
    /\ saveRet' = [saveRet EXCEPT ![t] = "idle"]
    /\ result' = [result EXCEPT ![t] = "none"]
    /\ UNCHANGED <<config, ruleMap, configFile, ruleMutex, window, matched, matchedOn>>
    /\ UNCHANGED <<installed, readers, building>>
    /\ UNCHANGED nonMatcherVars

\* how a SaveConfig call can go: MkdirAll fails, MarshalIndent fails, or
\* WriteFile ends in one of its outcomes
SaveOutcomes == {"mkdir_failed", "marshal_failed"} \cup WriteOutcomes

\* the config SaveConfig has stamped by the time it serializes it
Stamped(cfg) == [cfg EXCEPT !.lastModified = PidString]

\* SaveConfig from Lock to the deferred Unlock. sync.RWMutex is not
\* reentrant: Lock waits until no goroutine holds the mutex, the caller included.
SaveConfig(t) ==
    /\ pc[t] = "SaveLock"
    /\ ruleMutex = NoThread /\ readers = {}
    /\ \E outcome \in SaveOutcomes :
         LET cfg == Stamped(saveArg[t])
         IN /\ saveArg' = [saveArg EXCEPT ![t] = Nil]
            /\ configFile' = IF outcome \in WriteOutcomes
                             THEN WriteFile(configFile, MarshalIndent(cfg), outcome)
                             ELSE configFile
            /\ IF outcome = "ok"
               THEN /\ config' = cfg
                    /\ ruleMap' = buildRuleMap(cfg)
                    /\ installed' = cfg
               ELSE UNCHANGED <<config, ruleMap, installed>>
            /\ IF outcome = "ok" /\ saveRet[t] = "LoadRead"
               THEN /\ pc' = [pc EXCEPT ![t] = "LoadRead"]
                    /\ result' = result
               ELSE /\ pc' = [pc EXCEPT ![t] = "idle"]
                    /\ result' = [result EXCEPT ![t] =
                                    IF outcome = "ok" THEN "ok" ELSE "error"]
    /\ ruleMutex' = NoThread
    /\ saveRet' = [saveRet EXCEPT ![t] = "idle"]
    /\ UNCHANGED <<window, matched, matchedOn, readers, building>>
    /\ UNCHANGED nonMatcherVars

\* MatchWindow, under the read lock from start to return
MatchWindow(t, w) ==
    /\ pc[t] = "idle"
    /\ ruleMutex = NoThread
    /\ window' = w
    /\ matchedOn' = ruleMap
    /\ matched' \in MatchWindowResults(ruleMap, w)
    /\ UNCHANGED <<config, ruleMap, configFile, ruleMutex, pc, saveArg, saveRet, result>>
    /\ UNCHANGED <<installed, readers, building>>
    /\ UNCHANGED nonMatcherVars

(***************************************************************************)
(* Matching runs: a persisted config is loaded, then windows are matched   *)
(***************************************************************************)
MatchFiles == { MarshalIndent(Config(r, DefaultGeneral, "old")) : r \in RuleLists }

MatchInit ==
    /\ MatcherInit(MatchFiles)
    /\ LoggerInit({NoFile}, {NoSiblings}, {FALSE})
    /\ WindowInit /\ CallInit

MatchNext ==
    \/ LoadConfigBegin("app")
    \/ LoadConfigRead("app")
    \/ \E w \in Observations : MatchWindow("app", w)

MatchSpec == MatchInit /\ [][MatchNext]_vars

(***************************************************************************)
(* Load/save runs: goroutines load and save concurrently                   *)
(***************************************************************************)
CfgFiles == {AbsentFile, GarbageFile} \cup { MarshalIndent(c) : c \in CfgChoices }

CfgInit ==
    /\ MatcherInit(CfgFiles)
    /\ LoggerInit({NoFile}, {NoSiblings}, {FALSE})
    /\ WindowInit /\ CallInit

CfgNext ==
    \E t \in Threads :
        \/ LoadConfigBegin(t)
        \/ LoadConfigRead(t)
        \/ \E cfg \in CfgChoices : CallSaveConfig(t, cfg)
        \/ SaveConfig(t)

CfgSpec == CfgInit /\ [][CfgNext]_vars


(***************************************************************************)
(* LoggerService operations                                                *)
(***************************************************************************)
\* a plausible bug: the buffer counts as full only once it is over capacity
BufferOverFull(buf) == Len(buf) > bufferSize

\* the test of log: len(ls.logBuffer) >= ls.bufferSize
BufferFull(buf) == Len(buf) >= bufferSize

\* a plausible bug: rotation only once the file is over the threshold
OverThreshold(size) == size > maxLogSize

\* the test of rotateLogIfNeeded: not stat.Size() < ls.maxLogSize
NeedsRotation(size) == ~(size < maxLogSize)

\* os.Rename of sibling .i to .(i+1): fails, changing nothing, without a source
RenameSibling(rot, i) ==
    IF rot[i].exists THEN [rot EXCEPT ![i + 1] = rot[i], ![i] = NoFile] ELSE rot

\* os.Remove of sibling .i
RemoveSibling(rot, i) == [rot EXCEPT ![i] = NoFile]

\* the loop of rotateLogIfNeeded, i from maxLogFiles-1 down to 1: the first
\* round removes its file, the others rename theirs one up
RECURSIVE ShiftSiblings(_, _)
ShiftSiblings(rot, i) ==
    IF i < 1 THEN rot
    ELSE ShiftSiblings(IF i = maxLogFiles - 1 THEN RemoveSibling(rot, i)
                       ELSE RenameSibling(rot, i),
                       i - 1)

\* What the file system answers during one flush: whether Stat, the rename of
\* the live file and the re-open succeed, and which buffered entries'
\* WriteString calls succeed.
IoAnswers(buf) ==
    [stat : BOOLEAN, rename : BOOLEAN, open : BOOLEAN, written : SUBSET (1..Len(buf))]

\* the answers of a file system that does not fail
IoSuccess(buf) == [stat |-> TRUE, rename |-> TRUE, open |-> TRUE, written |-> 1..Len(buf)]

\* a plausible bug: a rotation that deletes no generation and moves every
\* sibling one number up
rotateLogUncapped(handle, live, rot, io) ==
    IF handle = "nil"
    THEN [err |-> FALSE, how |-> "no_file", handle |-> handle, live |-> live, rot |-> rot]
    ELSE IF handle = "closed" \/ ~io.stat
    THEN [err |-> TRUE, how |-> "stat_failed", handle |-> handle, live |-> live, rot |-> rot]
    ELSE IF ~NeedsRotation(Len(live.data))
    THEN [err |-> FALSE, how |-> "no_rotation", handle |-> handle, live |-> live, rot |-> rot]
    ELSE [err |-> FALSE, how |-> "rotated", handle |-> "open", live |-> File(<<>>),
          rot |-> [k \in DOMAIN rot |-> IF k = 1 THEN live ELSE rot[k - 1]]]

\* rotateLogIfNeeded: the handle, the files and the error it leaves
rotateLogIfNeeded(handle, live, rot, io) ==
    IF handle = "nil"
    THEN [err |-> FALSE, how |-> "no_file", handle |-> handle, live |-> live, rot |-> rot]
    ELSE IF handle = "closed" \/ ~io.stat
    THEN [err |-> TRUE, how |-> "stat_failed", handle |-> handle, live |-> live, rot |-> rot]
    ELSE IF ~NeedsRotation(Len(live.data))
    THEN [err |-> FALSE, how |-> "no_rotation", handle |-> handle, live |-> live, rot |-> rot]
    ELSE LET shifted == ShiftSiblings(RemoveSibling(rot, maxLogFiles), maxLogFiles - 1)
             renamed == io.rename /\ live.exists
             rot1 == IF renamed THEN [shifted EXCEPT ![1] = live] ELSE shifted
             live1 == IF renamed THEN NoFile ELSE live
         IN IF io.open
            THEN [err |-> FALSE, how |-> IF renamed THEN "rotated" ELSE "rename_failed",
                  handle |-> "open",
                  live |-> IF live1.exists THEN live1 ELSE File(<<>>), rot |-> rot1]
            ELSE [err |-> TRUE, how |-> IF renamed THEN "open_failed" ELSE "rename_open_failed",
                  handle |-> "nil", live |-> live1, rot |-> rot1]

\* the entries of buf at the places in keep, in order
RECURSIVE Pick(_, _, _)
Pick(buf, keep, i) ==
    IF i > Len(buf) THEN <<>>
    ELSE (IF i \in keep THEN <<buf[i]>> ELSE <<>>) \o Pick(buf, keep, i + 1)

\* a plausible bug: a flush that writes the buffer and does not empty it
flushKeepingBuffer(buf, handle, live, rot, io) ==
    IF Len(buf) = 0
    THEN [buf |-> buf, handle |-> handle, live |-> live, rot |-> rot, how |-> "empty"]
    ELSE LET r == rotateLogIfNeeded(handle, live, rot, io)
         IN [buf |-> buf, handle |-> r.handle,
             live |-> IF ~r.err /\ r.handle # "nil"
                      THEN File(r.live.data \o Pick(buf, io.written, 1))
                      ELSE r.live,
             rot |-> r.rot, how |-> r.how]

\* a plausible bug: a flush that goes through the rotation before it looks at
\* the buffer
flushRotatingFirst(buf, handle, live, rot, io) ==
    LET r == rotateLogIfNeeded(handle, live, rot, io)
    IN IF r.err \/ Len(buf) = 0
       THEN [buf |-> buf, handle |-> r.handle, live |-> r.live, rot |-> r.rot, how |-> r.how]
       ELSE [buf |-> <<>>, handle |-> r.handle,
             live |-> IF r.handle # "nil"
                      THEN File(r.live.data \o Pick(buf, io.written, 1))
                      ELSE r.live,
             rot |-> r.rot, how |-> r.how]

\* the body of flush between Lock and the deferred Unlock
flush(buf, handle, live, rot, io) ==
    IF Len(buf) = 0
    THEN [buf |-> buf, handle |-> handle, live |-> live, rot |-> rot, how |-> "empty"]
    ELSE LET r == rotateLogIfNeeded(handle, live, rot, io)
         IN IF r.err
            THEN [buf |-> buf, handle |-> r.handle, live |-> r.live, rot |-> r.rot,
                  how |-> r.how]
            ELSE [buf |-> <<>>, handle |-> r.handle,
                  live |-> IF r.handle # "nil"
                           THEN File(r.live.data \o Pick(buf, io.written, 1))
                           ELSE r.live,
                  rot |-> r.rot, how |-> r.how]

\* Start: the directory and the file are made and opened; only then does the
\* ticker start and flushRoutine run
Start(t) ==
    /\ t = "app"
    /\ lpc[t] = "idle"
    /\ logFile = "nil" /\ flushTicker = "nil" /\ stopChan = "open"
    /\ \E ok \in (IF ioFaults THEN BOOLEAN ELSE {TRUE}) :
         IF ok
         THEN /\ logFile' = "open"
              /\ liveLog' = IF liveLog.exists THEN liveLog ELSE File(<<>>)
              /\ flushTicker' = "running"
         ELSE UNCHANGED <<logFile, liveLog, flushTicker>>
    /\ lpc' = [lpc EXCEPT ![t] = "started"]
    /\ UNCHANGED <<logBuffer, bufferMutex, rotatedLogs, enableLogging, stopChan, lret,
                   lentry, nextEntry, generations, lastFlush, ioFaults>>
    /\ UNCHANGED nonLoggerVars

\* LogInfo, LogWindowChange, LogRuleMatch, ...: nothing when logging is
\* disabled; otherwise log builds the entry and goes for the mutex
LogCall(t) ==
    /\ t \in Loggers
    /\ lpc[t] = "idle" \/ (t = "app" /\ lpc[t] = "started")
    /\ lpc["app"] # "idle" \/ stopChan = "closed"
    /\ nextEntry <= maxLogSize + (IF ioFaults THEN MaxFaultyEntries ELSE MaxEntries)
    /\ IF enableLogging
       THEN /\ lentry' = [lentry EXCEPT ![t] = nextEntry]
            /\ nextEntry' = nextEntry + 1
            /\ lpc' = [lpc EXCEPT ![t] = "LogLock"]
            /\ lret' = [lret EXCEPT ![t] = lpc[t]]
            /\ skipped' = skipped
       ELSE /\ skipped < MaxSkipped
            /\ skipped' = skipped + 1
            /\ UNCHANGED <<lentry, nextEntry, lpc, lret>>
    /\ UNCHANGED <<logBuffer, bufferMutex, logFile, liveLog, rotatedLogs, enableLogging,
                   flushTicker, stopChan, generations, lastFlush, ioFaults>>
    /\ UNCHANGED <<matcherVars, windowVars, ruleCall, recent, stats, glueVars>>

\* SetLogging: the flag is written, under no lock
SetLogging(enabled) ==
    /\ enableLogging' = enabled
    /\ UNCHANGED <<logBuffer, bufferMutex, logFile, liveLog, rotatedLogs, flushTicker,
                   stopChan, lpc, lret, lentry, nextEntry, generations, lastFlush, ioFaults>>
    /\ UNCHANGED nonLoggerVars

\* log from Lock on: the entry is appended; below capacity the mutex is
\* released and log returns; at capacity log calls flush with the mutex held
LogAppend(t) ==
    /\ lpc[t] = "LogLock"
    /\ bufferMutex = NoThread
    /\ logBuffer' = Append(logBuffer, lentry[t])
    /\ IF BufferFull(Append(logBuffer, lentry[t]))
       THEN /\ bufferMutex' = t
            /\ lpc' = [lpc EXCEPT ![t] = "FlushLock"]
            /\ lret' = [lret EXCEPT ![t] = "log"]
       ELSE /\ bufferMutex' = NoThread
            /\ lpc' = [lpc EXCEPT ![t] = lret[t]]
            /\ lret' = [lret EXCEPT ![t] = "idle"]
    /\ UNCHANGED <<logFile, liveLog, rotatedLogs, enableLogging, flushTicker, stopChan,
                   lentry, nextEntry, generations, lastFlush, ioFaults>>
    /\ UNCHANGED nonLoggerVars

\* flushRoutine takes a tick of the running ticker and calls flush
TimerTick(t) ==
    /\ t = FlushRoutine
    /\ lpc[t] = "idle"
    /\ flushTicker = "running" /\ stopChan = "open"
    /\ lpc' = [lpc EXCEPT ![t] = "FlushLock"]
    /\ lret' = [lret EXCEPT ![t] = "idle"]
    /\ UNCHANGED <<logBuffer, bufferMutex, logFile, liveLog, rotatedLogs, enableLogging,
                   flushTicker, stopChan, lentry, nextEntry, generations, lastFlush, ioFaults>>
    /\ UNCHANGED nonLoggerVars

\* Stop up to its flush: the ticker is stopped and stopChan closed
StopBegin(t) ==
    /\ t = "app"
    /\ lpc[t] = "started"
    /\ stopChan = "open"
    /\ flushTicker' = IF flushTicker = "nil" THEN "nil" ELSE "stopped"
    /\ stopChan' = "closed"
    /\ lpc' = [lpc EXCEPT ![t] = "FlushLock"]
    /\ lret' = [lret EXCEPT ![t] = "StopClose"]
    /\ UNCHANGED <<logBuffer, bufferMutex, logFile, liveLog, rotatedLogs, enableLogging,
                   lentry, nextEntry, generations, lastFlush, ioFaults>>
    /\ UNCHANGED nonLoggerVars

\* flush from Lock to the deferred Unlock. sync.RWMutex is not reentrant:
\* Lock waits until no goroutine holds the mutex, the caller included. A
\* flush called by log would return to log's own Unlock of a mutex that
\* flush has already released, which is fatal in Go.
Flush(t) ==
    /\ lpc[t] = "FlushLock"
    /\ bufferMutex = NoThread
    /\ \E io \in (IF ioFaults THEN IoAnswers(logBuffer) ELSE {IoSuccess(logBuffer)}) :
         LET f == flush(logBuffer, logFile, liveLog, rotatedLogs, io)
         IN /\ logBuffer' = f.buf
            /\ logFile' = f.handle
            /\ liveLog' = f.live
            /\ rotatedLogs' = f.rot
            /\ lastFlush' = IF f.how = "empty" THEN lastFlush ELSE f.how
            /\ generations' = IF f.how \in {"rotated", "open_failed"}
                              THEN Append(generations, liveLog.data)
                              ELSE generations
    /\ bufferMutex' = NoThread
    /\ lpc' = [lpc EXCEPT ![t] = IF lret[t] = "log" THEN "fatal" ELSE lret[t]]
    /\ lret' = [lret EXCEPT ![t] = "idle"]
    /\ UNCHANGED <<enableLogging, flushTicker, stopChan, lentry, nextEntry, ioFaults>>
    /\ UNCHANGED nonLoggerVars

\* Stop after its flush: the file handle is closed
StopClose(t) ==
    /\ lpc[t] = "StopClose"
    /\ logFile' = IF logFile = "nil" THEN "nil" ELSE "closed"
    /\ lpc' = [lpc EXCEPT ![t] = "idle"]
    /\ UNCHANGED <<logBuffer, bufferMutex, liveLog, rotatedLogs, enableLogging,
                   flushTicker, stopChan, lret, lentry, nextEntry, generations, lastFlush, ioFaults>>
    /\ UNCHANGED nonLoggerVars

(***************************************************************************)
(* Rule editing: UpdateRule and DeleteRule work on what GetConfig returns, *)
(* a copy of the Config struct whose Rules slice shares its backing array  *)
(* with the live config's                                                  *)
(***************************************************************************)
\* UpdateRule and DeleteRule calls in a run
MaxRuleCalls == 2

\* a plausible bug: an index equal to the number of rules passes
IndexWithinLen(index, rules) == ~(index < 0 \/ index > Len(rules))

\* the test of UpdateRule and DeleteRule, negated: index < 0 || index >= len(config.Rules)
IndexInRange(index, rules) == ~(index < 0 \/ index >= Len(rules))

\* config.Rules[index] = rule (indices from 0)
Replaced(rules, index, rule) == [rules EXCEPT ![index + 1] = rule]

\* append(config.Rules[:index], config.Rules[index+1:]...): the slice returned
Removed(rules, index) ==
    SubSeq(rules, 1, index) \o SubSeq(rules, index + 2, Len(rules))

\* the same append, seen through the live config's slice, which keeps its
\* length: the rules behind index have moved one place down in the shared
\* array and the last one is there twice
ShiftedDown(rules, index) ==
    [i \in 1..Len(rules) |->
        IF i <= index THEN rules[i]
        ELSE IF i < Len(rules) THEN rules[i + 1]
        ELSE rules[i]]

\* the call is noted
NoteRuleCall(t, op, index) ==
    /\ ruleCall.n < MaxRuleCalls
    /\ ruleCall' = [n |-> ruleCall.n + 1, by |-> t, op |-> op, index |-> index]

\* UpdateRule up to its call of SaveConfig; GetConfig takes the read lock
UpdateRule(t, index, rule) ==
    /\ pc[t] = "idle"
    /\ ruleMutex = NoThread
    /\ NoteRuleCall(t, "UpdateRule", index)
    /\ IF config = Nil \/ ~IndexInRange(index, config.rules)
       THEN /\ result' = [result EXCEPT ![t] = "error"]
            /\ UNCHANGED <<config, pc, saveArg, saveRet>>
       ELSE /\ config' = [config EXCEPT !.rules = Replaced(config.rules, index, rule)]
            /\ saveArg' = [saveArg EXCEPT ![t] =
                              [config EXCEPT !.rules = Replaced(config.rules, index, rule)]]
            /\ saveRet' = [saveRet EXCEPT ![t] = "idle"]
            /\ pc' = [pc EXCEPT ![t] = "SaveLock"]
            /\ result' = [result EXCEPT ![t] = "none"]
    /\ UNCHANGED <<ruleMap, configFile, ruleMutex, window, matched, matchedOn>>
    /\ UNCHANGED <<installed, readers, building>>
    /\ UNCHANGED <<recent, stats, skipped, glueVars>>
    /\ UNCHANGED <<loggerVars, windowVars>>

\* DeleteRule up to its call of SaveConfig
DeleteRule(t, index) ==
    /\ pc[t] = "idle"
    /\ ruleMutex = NoThread
    /\ NoteRuleCall(t, "DeleteRule", index)
    /\ IF config = Nil \/ ~IndexInRange(index, config.rules)
       THEN /\ result' = [result EXCEPT ![t] = "error"]
            /\ UNCHANGED <<config, pc, saveArg, saveRet>>
       ELSE /\ config' = [config EXCEPT !.rules = ShiftedDown(config.rules, index)]
            /\ saveArg' = [saveArg EXCEPT ![t] =
                              [config EXCEPT !.rules = Removed(config.rules, index)]]
            /\ saveRet' = [saveRet EXCEPT ![t] = "idle"]
            /\ pc' = [pc EXCEPT ![t] = "SaveLock"]
            /\ result' = [result EXCEPT ![t] = "none"]
    /\ UNCHANGED <<ruleMap, configFile, ruleMutex, window, matched, matchedOn>>
    /\ UNCHANGED <<installed, readers, building>>
    /\ UNCHANGED <<recent, stats, skipped, glueVars>>
    /\ UNCHANGED <<loggerVars, windowVars>>

\* the rule handed to UpdateRule in the editing runs
EditedRule == Rule(<<"b">>, <<>>, "in5", TRUE, 1)

\* the indices tried: one below 0, and up to one past the longest list's end
Indices == (0 - 1)..MaxCfgRules

EditFiles == {GarbageFile} \cup { MarshalIndent(c) : c \in CfgChoices }

EditInit ==
    /\ MatcherInit(EditFiles)
    /\ LoggerInit({NoFile}, {NoSiblings}, {FALSE})
    /\ WindowInit /\ CallInit

EditNext ==
    \E t \in Threads :
        \/ LoadConfigBegin(t)
        \/ LoadConfigRead(t)
        \/ \E index \in Indices : UpdateRule(t, index, EditedRule)
        \/ \E index \in Indices : DeleteRule(t, index)
        \/ SaveConfig(t)

EditSpec == EditInit /\ [][EditNext]_vars

(***************************************************************************)
(* Logging runs: the service is started, entries are recorded and flushed, *)
(* the service is stopped                                                  *)
(***************************************************************************)
LogInit ==
    /\ MatcherInit({AbsentFile})
    /\ LoggerInit({NoFile, OldLog}, {NoSiblings}, {FALSE})
    /\ WindowInit /\ CallInit

LogNext ==
    \E t \in LogThreads :
        \/ Start(t)
        \/ LogCall(t)
        \/ LogAppend(t)
        \/ TimerTick(t)
        \/ StopBegin(t)
        \/ Flush(t)
        \/ StopClose(t)

LogSpec == LogInit /\ [][LogNext]_vars

\* the same on a file system that may fail any of the logger's calls
LogIoInit ==
    /\ MatcherInit({AbsentFile})
    /\ LoggerInit({NoFile, OldLog}, {NoSiblings}, {TRUE})
    /\ WindowInit /\ CallInit

LogIoSpec == LogIoInit /\ [][LogNext]_vars

\* Scheduling: a goroutine that can run does run, and a goroutine waiting
\* for a sync.RWMutex gets it if the mutex keeps being released (Go hands a
\* mutex to a starving waiter).
LogFairness ==
    \A t \in LogThreads :
        /\ SF_vars(LogAppend(t))
        /\ SF_vars(Flush(t))
        /\ WF_vars(StopClose(t))

FairLogSpec == LogSpec /\ LogFairness

(***************************************************************************)
(* Claims about matching                                                   *)
(***************************************************************************)
\* a MatchWindow call has run against a loaded index, with an observation
Matched == matchedOn # NoCall /\ window # Nil

\* the rules of a key's list whose window pattern matches the observation
WindowMatching(rules, w) ==
    { i \in DOMAIN rules : windowNameMatches(w.windowName, rules[i].window) }

\* the latest call was settled by the exact phase: the index has the
\* observation's app name as a key, with a window-matching rule under it
ExactCase ==
    /\ Matched
    /\ window.appName \in DOMAIN matchedOn
    /\ WindowMatching(matchedOn[window.appName], window) # {}

\* C1: when the index has a key equal to the observation's app name and a
\* rule under it whose window pattern matches, MatchWindow returns a rule of
\* that key's list, window-matching, whose priority is the least among the
\* key's window-matching rules.
C1_ExactLowestPriority ==
    ExactCase =>
        LET rules == matchedOn[window.appName]
            hits == WindowMatching(rules, window)
        IN /\ \E i \in hits : rules[i] = matched
           /\ \A i \in hits : matched.priority <= rules[i].priority

\* C1 witness: the exact phase chose between window-matching rules of
\* different priorities that the config lists in the opposite order
C1_Witness ==
    /\ ExactCase
    /\ matched # Nil
    /\ config # Nil
    /\ Len(config.rules) >= 2
    /\ config.rules[1].enabled
    /\ config.rules[1].app = window.appName
    /\ windowNameMatches(window.windowName, config.rules[1].window)
    /\ config.rules[1].priority > matched.priority

\* a stable sort by ascending priority: insertion after the last rule whose
\* priority is not greater
RECURSIVE StableInsert(_, _)
StableInsert(sorted, r) ==
    IF sorted = <<>> THEN <<r>>
    ELSE IF Head(sorted).priority <= r.priority
         THEN <<Head(sorted)>> \o StableInsert(Tail(sorted), r)
         ELSE <<r>> \o sorted

RECURSIVE StableSort(_)
StableSort(rs) ==
    IF rs = <<>> THEN <<>>
    ELSE StableInsert(StableSort(SubSeq(rs, 1, Len(rs) - 1)), rs[Len(rs)])

\* C2: each key's list keeps rules of equal priority in config order (it is
\* the stable sort of the enabled rules carrying the key, taken in config
\* order), and the exact phase returns the first window-matching rule of
\* that stable order.
C2_StableOrder ==
    (config # Nil /\ pc["app"] = "idle") =>
        LET unsorted == CollectRules(EmptyMap, config.rules)
        IN /\ \A k \in DOMAIN ruleMap : ruleMap[k] = StableSort(unsorted[k])
           /\ (ExactCase /\ matchedOn = ruleMap) =>
                 matched = FirstWindowMatch(StableSort(unsorted[window.appName]), window)

\* C3: two MatchWindow calls with the same observation against an unchanged
\* index return equal rules (a step that keeps the observation and the index
\* of the latest call keeps its result).
C3_Deterministic ==
    [][(matchedOn # NoCall /\ window' = window /\ matchedOn' = matchedOn)
           => matched' = matched]_vars

(***************************************************************************)
(* Claims about loading and saving                                         *)
(***************************************************************************)
\* LoadConfig found no config file and is inside createDefaultConfig's SaveConfig
CreatingDefault(t) == pc[t] = "SaveLock" /\ saveRet[t] = "LoadRead"

\* C4: a LoadConfig that found no file goes on to persist and install the
\* default config: while it delegates to SaveConfig it is never waiting for
\* the matcher's lock with nobody but itself to release it.
C4_LoadConfigProceeds ==
    \A t \in Threads :
        CreatingDefault(t) => (ENABLED SaveConfig(t) \/ ruleMutex \notin {NoThread, t})

\* C5: SaveConfig is all-or-nothing. A call that returns success leaves the
\* live config, the index and the file all corresponding to the given
\* config; a call that returns an error leaves all three as they were.
C5_SaveAllOrNothing ==
    [][\A t \in Threads :
          (pc[t] = "SaveLock" /\ pc'[t] # "SaveLock") =>
              IF result'[t] = "error"
              THEN UNCHANGED <<config, ruleMap, configFile>>
              ELSE /\ config' = Stamped(saveArg[t])
                   /\ ruleMap' = buildRuleMap(Stamped(saveArg[t]))
                   /\ configFile' = MarshalIndent(Stamped(saveArg[t]))]_vars


(***************************************************************************)
(* Claims about the log buffer and rotation                                *)
(***************************************************************************)
\* a goroutine is inside log and has called flush from it
FlushingFromLog(t) == lpc[t] = "FlushLock" /\ lret[t] = "log"

\* a goroutine is inside a record call or a flush
InLogOrFlush(t) == lpc[t] \in {"LogLock", "FlushLock"}

AtRest == \A t \in LogThreads : ~InLogOrFlush(t)

\* C6: a record call always gets on, the one that fills the buffer
\* included: inside its flush it is never waiting for the buffer mutex with
\* nobody but itself to release it.
C6_LogCallProceeds ==
    \A t \in Loggers :
        FlushingFromLog(t) => (ENABLED Flush(t) \/ bufferMutex \notin {NoThread, t})

\* C7: the record call that brings the buffer to bufferSize returns after one
\* flush, with the buffer empty and its entry in the live file.
C7_CapacityFlushCompletes ==
    \A t \in Loggers :
        FlushingFromLog(t) ~>
            (/\ ~InLogOrFlush(t)
             /\ logBuffer = <<>>
             /\ \E i \in DOMAIN liveLog.data : liveLog.data[i] = lentry[t])

\* C8: the buffer never holds more than bufferSize entries, and holds fewer
\* than bufferSize whenever no record call and no flush is in progress.
C8_BufferBounded ==
    /\ Len(logBuffer) <= bufferSize
    /\ AtRest => Len(logBuffer) < bufferSize

\* C8 witness: at rest with entries kept in the buffer by a flush whose
\* rotation failed on a closed file handle
C8_Witness ==
    /\ AtRest
    /\ logBuffer # <<>>
    /\ logFile = "closed"
    /\ lastFlush = "stat_failed"

Min(a, b) == IF a <= b THEN a ELSE b

\* C9: after n rotations the contents of the Min(n, maxLogFiles) most
\* recently rotated live files are each still held by a numbered sibling.
C9_RecentGenerationsKept ==
    LET n == Len(generations)
    IN \A i \in (n - Min(n, maxLogFiles) + 1)..n :
           \E k \in 1..maxLogFiles : rotatedLogs[k] = File(generations[i])

\* a flush by t runs from Lock to Unlock in this step
FlushStep(t) == lpc[t] = "FlushLock" /\ lpc'[t] # "FlushLock"

\* the live file is at or above the threshold and there is something to flush
RotationDue ==
    /\ logBuffer # <<>>
    /\ liveLog.exists
    /\ Len(liveLog.data) >= maxLogSize

\* sibling .1 holds what the live file held, and the live file is below the threshold
RotatedAway ==
    /\ rotatedLogs'[1] = liveLog
    /\ liveLog'.exists
    /\ Len(liveLog'.data) < maxLogSize

\* C10 as claimed: every flush that runs with a non-empty buffer while the
\* live file is at or above maxLogSize leaves its content in .1 and a live
\* file below maxLogSize.
C10_FlushRotates ==
    [][\A t \in LogThreads : (FlushStep(t) /\ RotationDue) => RotatedAway]_vars

\* the latest flush met a failing Stat, rename of the live file or re-open
RotationFailed(how) ==
    how \in {"stat_failed", "rename_failed", "open_failed", "rename_open_failed"}

\* C10 as amended: the same for a flush that holds an open file handle and
\* whose Stat, rename of the live file and re-open all succeed.
C10_FlushRotatesWhenOpen ==
    [][\A t \in LogThreads :
          (FlushStep(t) /\ RotationDue /\ logFile = "open" /\ ~RotationFailed(lastFlush'))
              => RotatedAway]_vars

\* C10 witness: a flush has just rotated a live file at the threshold and
\* written its buffer to the fresh one
C10_Witness ==
    /\ lastFlush = "rotated"
    /\ rotatedLogs[1].exists
    /\ Len(rotatedLogs[1].data) >= maxLogSize
    /\ logBuffer = <<>>
    /\ liveLog.exists /\ liveLog.data # <<>>

(***************************************************************************)
(* Rotation runs: the logging runs, also over the siblings of an earlier   *)
(* run and on a file system that may fail                                  *)
(***************************************************************************)
RotInit ==
    /\ MatcherInit({AbsentFile})
    /\ LoggerInit({NoFile, OldLog}, {NoSiblings, OldSiblings}, BOOLEAN)
    /\ WindowInit /\ CallInit

RotSpec == RotInit /\ [][LogNext]_vars

\* the numbered siblings present on disk
Siblings == { k \in DOMAIN rotatedLogs : rotatedLogs[k].exists }

\* C11: at every moment at most maxLogFiles numbered siblings of the live
\* file exist, however many rotations have run.
C11_SiblingsCapped == Cardinality(Siblings) <= maxLogFiles

\* C11 witness: maxLogFiles rotations have run over siblings that were
\* already there, and siblings remain
C11_Witness ==
    /\ Len(generations) >= maxLogFiles
    /\ rotatedLogs[2].exists /\ rotatedLogs[2].data # <<0>>
    /\ Siblings # {}

(***************************************************************************)
(* WindowService: the poll loop                                            *)
(*                                                                         *)
(* A goroutine running StartMonitoring waits in its select ("select"),     *)
(* takes a tick, and is inside ws.onWindowChange ("callback") when the     *)
(* tick found a change. What the callback does to the logger and the       *)
(* matcher is modelled with those services.                                *)
(***************************************************************************)
\* ticks taken in a run
MaxTicks == 4

\* the *WindowInfo GetActiveWindow returns (AppPath left out: nothing reads it)
ActiveWindow(appName, windowName, pid) ==
    [appName |-> appName, windowName |-> windowName, pid |-> pid]

\* GetActiveWindow returned an error
QueryFailed == [failed |-> TRUE]

\* what a query can answer
Answers ==
    { ActiveWindow(a, w, p) : a \in { <<"a", "b">>, <<"b">> },
                              w \in { <<"v">>, <<"w">> },
                              p \in {1, 2} }
    \cup { QueryFailed }

\* a plausible bug: any difference between the observations counts as a change
ChangedAnyField(last, w) == last = Nil \/ last # w

\* the test of StartMonitoring: ws.lastWindow == nil || ws.lastWindow.AppName != window.AppName
Changed(last, w) == last = Nil \/ last.appName # w.appName

\* a plausible bug: a failed query forgets the last observation
TickOutcomeForgetting(last, answer) ==
    IF answer = QueryFailed THEN [last |-> Nil, call |-> FALSE]
    ELSE IF Changed(last, answer) THEN [last |-> answer, call |-> TRUE]
    ELSE [last |-> last, call |-> FALSE]

\* the body of the ticker case: what ws.lastWindow becomes and whether the
\* callback is invoked
TickOutcome(last, answer) ==
    IF answer = QueryFailed THEN [last |-> last, call |-> FALSE]
    ELSE IF Changed(last, answer) THEN [last |-> answer, call |-> TRUE]
    ELSE [last |-> last, call |-> FALSE]

\* a plausible bug: the stop case waits for a value nobody sends
StopNeverObserved(ch) == FALSE

\* case <-ws.stopChan: a receive from a closed channel is always ready
StopObserved(ch) == ch = "closed"

\* close(ws.stopChan): closing a closed channel panics, which ends the process
CloseStopChan(ch) == IF ch = "open" THEN "closed" ELSE "double_closed"

\* the process has panicked
Panicked == wsStopChan = "double_closed"

\* the goroutine is in StartMonitoring
Monitoring(l) == loop[l] \in {"select", "callback"}

\* go a.windowService.StartMonitoring(): the goroutine makes its ticker and
\* enters the loop
StartMonitoring(l) ==
    /\ ~Panicked
    /\ loop[l] = "none"
    /\ loop' = [loop EXCEPT ![l] = "select"]
    /\ UNCHANGED <<lastWindow, wsStopChan, isRunning, cbWindow, polled, ticks, stopTick,
                   callbacks>>
    /\ UNCHANGED <<matcherVars, loggerVars, callVars>>

\* the ticker case of the select, up to the call of the callback. select
\* chooses among its ready cases at random, so a tick can be taken while
\* the stop channel is closed.
Tick(l) ==
    /\ ~Panicked
    /\ loop[l] = "select"
    /\ ticks < MaxTicks
    /\ \E answer \in Answers :
         LET o == TickOutcome(lastWindow, answer)
         IN /\ polled' = answer
            /\ lastWindow' = o.last
            /\ IF o.call
               THEN /\ callbacks' = callbacks + 1
                    /\ loop' = [loop EXCEPT ![l] = "callback"]
                    /\ cbWindow' = [cbWindow EXCEPT ![l] = answer]
               ELSE UNCHANGED <<callbacks, loop, cbWindow>>
    /\ ticks' = ticks + 1
    /\ UNCHANGED <<wsStopChan, isRunning, stopTick>>
    /\ UNCHANGED <<matcherVars, loggerVars, callVars>>

\* ws.onWindowChange returns and the goroutine is back at its select
CallbackReturn(l) ==
    /\ ~Panicked
    /\ loop[l] = "callback"
    /\ loop' = [loop EXCEPT ![l] = "select"]
    /\ cbWindow' = [cbWindow EXCEPT ![l] = Nil]
    /\ UNCHANGED <<lastWindow, wsStopChan, isRunning, polled, ticks, stopTick, callbacks>>
    /\ UNCHANGED <<matcherVars, loggerVars, callVars>>

\* the stop case of the select: StartMonitoring returns
LoopExit(l) ==
    /\ ~Panicked
    /\ loop[l] = "select"
    /\ StopObserved(wsStopChan)
    /\ loop' = [loop EXCEPT ![l] = "done"]
    /\ UNCHANGED <<lastWindow, wsStopChan, isRunning, cbWindow, polled, ticks, stopTick,
                   callbacks>>
    /\ UNCHANGED <<matcherVars, loggerVars, callVars>>

\* StopMonitoring
StopMonitoring ==
    /\ ~Panicked
    /\ wsStopChan' = CloseStopChan(wsStopChan)
    /\ stopTick' = IF wsStopChan = "open" THEN ticks ELSE stopTick
    /\ UNCHANGED <<lastWindow, loop, isRunning, cbWindow, polled, ticks, callbacks>>
    /\ UNCHANGED <<matcherVars, loggerVars, callVars>>

\* SetRunning: under isRunningMutex the flag is written; true starts one
\* more goroutine running StartMonitoring, false calls StopMonitoring
SetRunning(running) ==
    /\ ~Panicked
    /\ isRunning' = running
    /\ IF running
       THEN /\ \E l \in Loops :
                 /\ loop[l] = "none"
                 /\ loop' = [loop EXCEPT ![l] = "select"]
            /\ UNCHANGED <<wsStopChan, stopTick>>
       ELSE /\ wsStopChan' = CloseStopChan(wsStopChan)
            /\ stopTick' = IF wsStopChan = "open" THEN ticks ELSE stopTick
            /\ UNCHANGED loop
    /\ UNCHANGED <<lastWindow, cbWindow, polled, ticks, callbacks>>
    /\ UNCHANGED <<matcherVars, loggerVars, callVars>>

(***************************************************************************)
(* Polling runs: startup starts the loop, onShutdown stops it              *)
(***************************************************************************)
PollInit ==
    /\ MatcherInit({AbsentFile})
    /\ LoggerInit({NoFile}, {NoSiblings}, {FALSE})
    /\ WindowInit /\ CallInit

\* the StopMonitoring call of onShutdown, which runs once, after startup
onShutdown ==
    /\ loop["loop1"] # "none"
    /\ wsStopChan = "open"
    /\ StopMonitoring

PollNext ==
    \/ StartMonitoring("loop1")
    \/ \E l \in Loops : Tick(l) \/ CallbackReturn(l) \/ LoopExit(l)
    \/ onShutdown

PollSpec == PollInit /\ [][PollNext]_vars

\* Scheduling: a callback that can return does, and a select whose stop case
\* is ready again and again takes it at some point (Go's select chooses
\* among the ready cases uniformly at random).
PollFairness ==
    \A l \in Loops : WF_vars(CallbackReturn(l)) /\ SF_vars(LoopExit(l))

FairPollSpec == PollSpec /\ PollFairness

(***************************************************************************)
(* Running runs: the same, with the UI calling SetRunning                  *)
(***************************************************************************)
RunNext ==
    \/ StartMonitoring("loop1")
    \/ \E l \in Loops : Tick(l) \/ CallbackReturn(l) \/ LoopExit(l)
    \/ \E running \in BOOLEAN : SetRunning(running)
    \/ onShutdown

RunSpec == PollInit /\ [][RunNext]_vars

(***************************************************************************)
(* Reading the log: GetRecentLogs and GetLogStats open the file at         *)
(* ls.logPath themselves and take no lock                                  *)
(***************************************************************************)
\* the longest live file read in the reading runs
MaxLogLen == 8

\* the decoder loop of GetRecentLogs and GetLogStats: every line flush wrote
\* is one entry, and Decode yields them in the order of the file
ReadEntries(file) == file.data

\* a plausible bug: the first limit entries instead of the last
FirstEntries(logs, limit) ==
    IF Len(logs) > limit THEN SubSeq(logs, 1, limit) ELSE logs

\* the end of GetRecentLogs: logs[len(logs)-limit:] when len(logs) > limit
LastEntries(logs, limit) ==
    IF Len(logs) > limit THEN SubSeq(logs, Len(logs) - limit + 1, Len(logs)) ELSE logs

\* GetRecentLogs(limit), for limit >= 0: os.Open fails without a file
GetRecentLogs(limit) ==
    /\ recent' = IF liveLog.exists
                 THEN [limit |-> limit, err |-> FALSE,
                       logs |-> LastEntries(ReadEntries(liveLog), limit)]
                 ELSE [limit |-> limit, err |-> TRUE, logs |-> <<>>]
    /\ UNCHANGED <<ruleCall, stats, skipped, glueVars>>
    /\ UNCHANGED <<matcherVars, loggerVars, windowVars>>

\* GetLogStats: the entries of the live file are counted; a file that cannot
\* be opened gives the zero statistics and an error
GetLogStats ==
    /\ stats' = IF liveLog.exists
                THEN [err |-> FALSE, total_entries |-> Len(ReadEntries(liveLog))]
                ELSE [err |-> TRUE, total_entries |-> 0]
    /\ UNCHANGED <<ruleCall, recent, skipped, glueVars>>
    /\ UNCHANGED <<matcherVars, loggerVars, windowVars>>

\* live files of every length up to MaxLogLen, and none
ReadFiles == {NoFile} \cup { File([i \in 1..n |-> i]) : n \in 0..MaxLogLen }

ReadInit ==
    /\ MatcherInit({AbsentFile})
    /\ LoggerInit(ReadFiles, {NoSiblings}, {FALSE})
    /\ WindowInit /\ CallInit

ReadNext ==
    \/ \E limit \in 0..(MaxLogLen + 1) : GetRecentLogs(limit)
    \/ GetLogStats

ReadSpec == ReadInit /\ [][ReadNext]_vars

\* C14: GetRecentLogs(limit) on a live file of total entries returns
\* Min(limit, total) entries, the last ones of the file in the file's order.
C14_RecentLogsAreLast ==
    [][(recent' # recent /\ liveLog.exists) =>
          LET total == Len(liveLog.data)
              r == recent'
          IN /\ ~r.err
             /\ Len(r.logs) = Min(r.limit, total)
             /\ \A i \in 1..Len(r.logs) : r.logs[i] = liveLog.data[total - Len(r.logs) + i]]_vars

\* C14 witness: a call with a limit below the file's length has returned the
\* file's last entries, and not its first
C14_Witness ==
    /\ recent # NoCall
    /\ ~recent.err
    /\ recent.limit > 0
    /\ recent.limit < Len(liveLog.data)
    /\ Len(recent.logs) = recent.limit
    /\ recent.logs[1] # liveLog.data[1]

(***************************************************************************)
(* Startup runs: App.startup in its order (Start, LogInfo, LoadConfig,     *)
(* SetLogging, go StartMonitoring, LogInfo), on an empty log and a config  *)
(* file that enables or disables logging; then record calls, timer         *)
(* flushes and GetLogStats                                                 *)
(***************************************************************************)
StartupFiles ==
    { MarshalIndent(Config(DefaultRules, [DefaultGeneral EXCEPT !.enableLogging = e], "old")) :
        e \in BOOLEAN }

StartupInit ==
    /\ MatcherInit(StartupFiles)
    /\ LoggerInit({NoFile}, {NoSiblings}, {FALSE})
    /\ WindowInit /\ CallInit

\* no record call has been made yet
NothingRecorded == nextEntry = maxLogSize + 1 /\ skipped = 0

\* startup has started the logger and its last call has returned
StartupAt == lpc["app"] = "started" /\ pc["app"] = "idle"

\* a.loggerService.LogInfo, first thing after Start
StartupLogInfo == StartupAt /\ NothingRecorded /\ LogCall("app")

\* a.matcherService.LoadConfig
StartupLoadConfig ==
    /\ lpc["app"] = "started" /\ ~NothingRecorded
    /\ result["app"] = "none"
    /\ LoadConfigBegin("app") \/ LoadConfigRead("app")

\* GetConfig, under the read lock, and SetLogging with the config's setting
StartupSetLogging ==
    /\ StartupAt /\ result["app"] = "ok" /\ loop["loop1"] = "none"
    /\ ruleMutex = NoThread
    /\ SetLogging(config.general.enableLogging)

\* go a.windowService.StartMonitoring()
StartupMonitoring ==
    /\ StartupAt /\ result["app"] = "ok"
    /\ enableLogging = config.general.enableLogging
    /\ StartMonitoring("loop1")

\* the record calls after that: startup's last LogInfo and the callbacks' calls
RunningLog(t) == loop["loop1"] # "none" /\ LogCall(t)

StartupNext ==
    \/ Start("app")
    \/ StartupLogInfo
    \/ StartupLoadConfig
    \/ StartupSetLogging
    \/ StartupMonitoring
    \/ \E t \in Loggers : RunningLog(t)
    \/ \E t \in LogThreads : LogAppend(t) \/ TimerTick(t) \/ Flush(t)
    \/ GetLogStats

StartupSpec == StartupInit /\ [][StartupNext]_vars

\* the config file asks for no logging
LoggingDisabledOnDisk ==
    configFile.kind = "json" /\ ~configFile.doc.general.enableLogging

\* C15: a record call made while logging is disabled changes neither the
\* buffer nor the live file nor the siblings; and when the configuration the
\* application starts with disables logging, on a log that was empty, a
\* GetLogStats call made while logging is disabled reports a total entry
\* count of 0.
C15_DisabledLogStaysEmpty ==
    [][/\ (skipped' # skipped) => UNCHANGED <<logBuffer, liveLog, rotatedLogs>>
       /\ (LoggingDisabledOnDisk /\ ~enableLogging /\ stats' # stats)
              => stats'.total_entries = 0]_vars

(***************************************************************************)
(* Claims about shutdown and durability                                    *)
(***************************************************************************)
\* the entries this run has appended to the buffer: those created, but for
\* the ones a record call still holds in front of the mutex
Recorded ==
    { e \in (maxLogSize + 1)..(nextEntry - 1) :
        ~\E t \in Loggers : lpc[t] = "LogLock" /\ lentry[t] = e }

InSeq(e, seq) == \E i \in DOMAIN seq : seq[i] = e

\* the entry has reached a log file: it is in the live file or a sibling, or
\* in a generation that rotation has since renamed or discarded
Written(e) ==
    \/ InSeq(e, liveLog.data)
    \/ \E k \in DOMAIN rotatedLogs : InSeq(e, rotatedLogs[k].data)
    \/ \E g \in DOMAIN generations : InSeq(e, generations[g])

\* Stop closes the file handle and returns in this step
StopReturns == lpc["app"] = "StopClose" /\ lpc'["app"] = "idle"

\* C12: when Stop closes the file handle and returns, the buffer is empty and
\* every entry recorded until then has reached the log files, the entries
\* the poll loop recorded during the shutdown included.
C12_StopLosesNothing ==
    [][StopReturns => (logBuffer' = <<>> /\ \A e \in Recorded' : Written(e)')]_vars

\* C13: a flush takes an entry out of the buffer only once the entry has been
\* appended to the live file: after a flush every entry the buffer held is
\* still in the buffer or is in the live file.
C13_FlushWritesBeforeClearing ==
    [][\A t \in LogThreads :
          FlushStep(t) =>
              \A i \in DOMAIN logBuffer :
                  InSeq(logBuffer[i], logBuffer') \/ InSeq(logBuffer[i], liveLog'.data)]_vars

(***************************************************************************)
(* Claims about the poll loop                                              *)
(***************************************************************************)
\* a goroutine takes a tick in this step
TickStep == ticks' = ticks + 1

\* C16: a tick whose query succeeds invokes the callback once when no
\* observation is recorded yet or the answer's appName differs from the
\* recorded one's, and not at all otherwise, whatever the windowName and pid.
C16_CallbackOnAppChange ==
    [][(TickStep /\ polled' # QueryFailed) =>
          IF lastWindow = Nil \/ lastWindow.appName # polled'.appName
          THEN callbacks' = callbacks + 1 /\ lastWindow' = polled'
          ELSE callbacks' = callbacks /\ lastWindow' = lastWindow]_vars

\* C16 witness: the latest tick found the same application under another
\* window name and pid, after a callback, and invoked nothing
C16_Witness ==
    /\ polled # NoCall /\ polled # QueryFailed
    /\ lastWindow # Nil
    /\ polled.appName = lastWindow.appName
    /\ polled.windowName # lastWindow.windowName
    /\ polled.pid # lastWindow.pid
    /\ callbacks = 1 /\ ticks = 2

\* C17: a tick whose query fails invokes no callback, leaves the recorded
\* observation as it was, and leaves the goroutine in its loop, so that the
\* next tick compares with the observation recorded before the failure.
C17_FailedQuerySwallowed ==
    [][(TickStep /\ polled' = QueryFailed) =>
          /\ callbacks' = callbacks
          /\ lastWindow' = lastWindow
          /\ loop' = loop
          /\ wsStopChan' = wsStopChan]_vars

\* C17 witness: a query has failed after an observation was recorded, and
\* the goroutine waits for its next tick
C17_Witness ==
    /\ polled = QueryFailed
    /\ lastWindow # Nil
    /\ loop["loop1"] = "select"
    /\ ticks < MaxTicks

\* C18: no two invocations of the change callback overlap.
C18_CallbacksSerialized ==
    Cardinality({ l \in Loops : loop[l] = "callback" }) <= 1

RuleCallStep == ruleCall'.n = ruleCall.n + 1

\* C20: an UpdateRule or DeleteRule call whose index is below 0 or not below
\* the number of rules returns an error and leaves the live config, the rule
\* index and the config file as they were.
C20_IndexErrorChangesNothing ==
    [][(/\ RuleCallStep
        /\ config # Nil
        /\ ruleCall'.index \notin 0..(Len(config.rules) - 1))
          => /\ result'[ruleCall'.by] = "error"
             /\ pc'[ruleCall'.by] = "idle"
             /\ UNCHANGED <<config, ruleMap, configFile>>]_vars

\* C20 witness: a call with the index just past the last rule has returned
\* an error
C20_Witness ==
    /\ ruleCall.n > 0
    /\ config # Nil
    /\ Len(config.rules) > 0
    /\ ruleCall.index = Len(config.rules)
    /\ result[ruleCall.by] = "error"
    /\ pc[ruleCall.by] = "idle"

(***************************************************************************)
(* Reloading runs: the config file is rewritten outside the program (the   *)
(* tray menu opens it in an editor) and loaded again, windows are matched  *)
(***************************************************************************)
\* the file at configPath gets another content, or is deleted, while no
\* matcher call runs
FileEdited(file) ==
    /\ \A t \in Threads : pc[t] = "idle"
    /\ file # configFile
    /\ configFile' = file
    /\ UNCHANGED <<config, ruleMap, ruleMutex, pc, saveArg, saveRet, result, window, matched,
                   matchedOn, installed, readers, building>>
    /\ UNCHANGED nonMatcherVars

ReloadInit ==
    /\ MatcherInit(CfgFiles)
    /\ LoggerInit({NoFile}, {NoSiblings}, {FALSE})
    /\ WindowInit /\ CallInit

ReloadNext ==
    \/ LoadConfigBegin("app")
    \/ LoadConfigRead("app")
    \/ \E file \in CfgFiles : FileEdited(file)
    \/ \E w \in Observations : MatchWindow("app", w)

ReloadSpec == ReloadInit /\ [][ReloadNext]_vars

\* a LoadConfig call by t returns in this step
LoadReturns(t) == pc[t] = "LoadRead" /\ pc'[t] = "idle"

\* C21: a LoadConfig (or ReloadConfig) call that finds a config file it
\* cannot parse returns an error, and a LoadConfig call that returns an error
\* leaves the live config and the rule index as they were, so that
\* MatchWindow answers every observation as before.
C21_FailedLoadChangesNothing ==
    [][\A t \in Threads :
          LoadReturns(t) =>
              /\ configFile.kind # "json" => result'[t] = "error"
              /\ result'[t] = "error" =>
                    /\ config' = config
                    /\ ruleMap' = ruleMap
                    /\ \A w \in Observations :
                          MatchWindowResults(ruleMap', w) = MatchWindowResults(ruleMap, w)]_vars

\* C21 witness: a config with an enabled rule was loaded and matched against,
\* the file was then spoilt, and the reload has returned an error
C21_Witness ==
    /\ result["app"] = "error" /\ pc["app"] = "idle"
    /\ configFile = GarbageFile
    /\ config # Nil
    /\ DOMAIN ruleMap # {}
    /\ matched # Nil

(***************************************************************************)
(* Rule maintenance runs: the UI loads, saves, adds, updates and deletes   *)
(***************************************************************************)
\* AddRule up to its call of SaveConfig: a rule without a priority gets the
\* next one, and is appended to the copy GetConfig returned (the live config's
\* slice keeps its length, so the append does not show in it)
AddRule(t, rule) ==
    /\ pc[t] = "idle"
    /\ ruleMutex = NoThread
    /\ NoteRuleCall(t, "AddRule", IF config = Nil THEN 0 ELSE Len(config.rules))
    /\ IF config = Nil
       THEN /\ result' = [result EXCEPT ![t] = "error"]
            /\ UNCHANGED <<pc, saveArg, saveRet>>
       ELSE /\ saveArg' = [saveArg EXCEPT ![t] =
                              [config EXCEPT !.rules =
                                  Append(config.rules,
                                         IF rule.priority = 0
                                         THEN [rule EXCEPT !.priority = Len(config.rules) + 1]
                                         ELSE rule)]]
            /\ saveRet' = [saveRet EXCEPT ![t] = "idle"]
            /\ pc' = [pc EXCEPT ![t] = "SaveLock"]
            /\ result' = [result EXCEPT ![t] = "none"]
    /\ UNCHANGED <<config, ruleMap, configFile, ruleMutex, window, matched, matchedOn>>
    /\ UNCHANGED <<installed, readers, building>>
    /\ UNCHANGED <<recent, stats, skipped, glueVars>>
    /\ UNCHANGED <<loggerVars, windowVars>>

\* the rules handed to AddRule: one with a priority and one without
AddedRules == { EditedRule, Rule(<<"a">>, <<>>, "in4", TRUE, 0) }

CrudInit ==
    /\ MatcherInit(EditFiles)
    /\ LoggerInit({NoFile}, {NoSiblings}, {FALSE})
    /\ WindowInit /\ CallInit

CrudNext ==
    \/ LoadConfigBegin("ui")
    \/ LoadConfigRead("ui")
    \/ \E cfg \in CfgChoices : CallSaveConfig("ui", cfg)
    \/ \E rule \in AddedRules : AddRule("ui", rule)
    \/ \E index \in Indices : UpdateRule("ui", index, EditedRule)
    \/ \E index \in Indices : DeleteRule("ui", index)
    \/ SaveConfig("ui")

CrudSpec == CrudInit /\ [][CrudNext]_vars

\* no matcher call is in progress
MatcherAtRest == \A t \in Threads : pc[t] = "idle"

\* C22: whenever no matcher operation is in progress, the rule index is the
\* one derived from the live config's rules, and the live config's rules are
\* those of the config the latest successful SaveConfig or LoadConfig
\* installed.
C22_IndexFollowsInstalled ==
    MatcherAtRest =>
        /\ ruleMap = buildRuleMap(config)
        /\ config # Nil => (installed # Nil /\ config.rules = installed.rules)

(***************************************************************************)
(* Locking runs: SaveConfig, LoadConfig and buildRuleMap taken statement   *)
(* by statement, against MatchWindow calls of the poll loop's goroutine    *)
(***************************************************************************)
\* a plausible bug: MatchWindow reads the index without waiting for the writer
CanRLockAnytime(mutex) == TRUE

\* ms.ruleMutex.RLock() returns once no goroutine holds the mutex for writing
CanRLock(mutex) == mutex = NoThread

\* ms.ruleMutex.Lock() returns once no goroutine holds the mutex at all
CanLock(mutex, rdrs) == mutex = NoThread /\ rdrs = {}

\* what the steps below leave alone
LockFrame ==
    /\ UNCHANGED <<saveRet, window, matched, matchedOn, readers>>
    /\ UNCHANGED nonMatcherVars

\* SaveConfig: ms.ruleMutex.Lock()
SaveConfigLock(t) ==
    /\ pc[t] = "SaveLock"
    /\ CanLock(ruleMutex, readers)
    /\ ruleMutex' = t
    /\ pc' = [pc EXCEPT ![t] = "SaveWrite"]
    /\ UNCHANGED <<config, ruleMap, configFile, saveArg, result, installed, building>>
    /\ LockFrame

\* SaveConfig from MkdirAll to ms.config = config and the make of
\* buildRuleMap; an error returns through the deferred Unlock
SaveConfigWrite(t) ==
    /\ pc[t] = "SaveWrite"
    /\ \E outcome \in SaveOutcomes :
         LET cfg == Stamped(saveArg[t])
         IN /\ configFile' = IF outcome \in WriteOutcomes
                             THEN WriteFile(configFile, MarshalIndent(cfg), outcome)
                             ELSE configFile
            /\ IF outcome = "ok"
               THEN /\ config' = cfg
                    /\ ruleMap' = EmptyMap
                    /\ building' = cfg.rules
                    /\ pc' = [pc EXCEPT ![t] = "Collect"]
                    /\ UNCHANGED <<ruleMutex, result>>
               ELSE /\ ruleMutex' = NoThread
                    /\ pc' = [pc EXCEPT ![t] = "idle"]
                    /\ result' = [result EXCEPT ![t] = "error"]
                    /\ UNCHANGED <<config, ruleMap, building>>
    /\ saveArg' = [saveArg EXCEPT ![t] = Nil]
    /\ UNCHANGED installed
    /\ LockFrame

\* LoadConfig from ReadFile to ms.config = &config and the make of
\* buildRuleMap; an error returns through the deferred Unlock
LoadConfigParse(t) ==
    /\ pc[t] = "LoadRead"
    /\ \E readOK \in BOOLEAN :
         LET parsed == Unmarshal(configFile)
         IN IF readOK /\ configFile.kind # "absent" /\ parsed.ok
            THEN /\ config' = FillDefaults(parsed.config)
                 /\ ruleMap' = EmptyMap
                 /\ building' = parsed.config.rules
                 /\ pc' = [pc EXCEPT ![t] = "Collect"]
                 /\ UNCHANGED <<ruleMutex, result>>
            ELSE /\ ruleMutex' = NoThread
                 /\ pc' = [pc EXCEPT ![t] = "idle"]
                 /\ result' = [result EXCEPT ![t] = "error"]
                 /\ UNCHANGED <<config, ruleMap, building>>
    /\ UNCHANGED <<configFile, saveArg, installed>>
    /\ LockFrame

\* one round of the first loop of buildRuleMap
buildRuleMapCollect(t) ==
    /\ pc[t] = "Collect"
    /\ building # <<>>
    /\ ruleMap' = CollectRules(ruleMap, <<Head(building)>>)
    /\ building' = Tail(building)
    /\ UNCHANGED <<config, configFile, ruleMutex, pc, saveArg, result, installed>>
    /\ LockFrame

\* the second loop of buildRuleMap, and the return of SaveConfig or
\* LoadConfig through the deferred Unlock
buildRuleMapSort(t) ==
    /\ pc[t] = "Collect"
    /\ building = <<>>
    /\ ruleMap' = [k \in DOMAIN ruleMap |-> SortRules(ruleMap[k])]
    /\ installed' = config
    /\ ruleMutex' = NoThread
    /\ pc' = [pc EXCEPT ![t] = "idle"]
    /\ result' = [result EXCEPT ![t] = "ok"]
    /\ UNCHANGED <<config, configFile, saveArg, building>>
    /\ LockFrame

\* MatchWindow: ms.ruleMutex.RLock()
MatchWindowRLock(t, w) ==
    /\ pc[t] = "idle"
    /\ CanRLock(ruleMutex)
    /\ readers' = readers \cup {t}
    /\ pc' = [pc EXCEPT ![t] = "Match"]
    /\ window' = w
    /\ UNCHANGED <<config, ruleMap, configFile, ruleMutex, saveArg, saveRet, result, matched,
                   matchedOn, installed, building>>
    /\ UNCHANGED nonMatcherVars

\* MatchWindow from the nil test to the return through the deferred RUnlock
MatchWindowRead(t) ==
    /\ pc[t] = "Match"
    /\ matchedOn' = ruleMap
    /\ matched' \in MatchWindowResults(ruleMap, window)
    /\ readers' = readers \ {t}
    /\ pc' = [pc EXCEPT ![t] = "idle"]
    /\ UNCHANGED <<config, ruleMap, configFile, ruleMutex, saveArg, saveRet, result, window,
                   installed, building>>
    /\ UNCHANGED nonMatcherVars

\* the configs the locking runs save and find on disk: enabled rules under
\* one key and under two
LockChoices ==
    { Config(r, DefaultGeneral, "old") :
        r \in RuleListsOver({ Rule(<<"a", "b">>, <<>>, "", TRUE, 1),
                              Rule(<<"b">>, <<>>, "", TRUE, 1) }, MaxCfgRules) }

LockInit ==
    /\ MatcherInit({GarbageFile} \cup { MarshalIndent(c) : c \in LockChoices })
    /\ LoggerInit({NoFile}, {NoSiblings}, {FALSE})
    /\ WindowInit /\ CallInit

LockNext ==
    \/ LoadConfigBegin("ui")
    \/ LoadConfigParse("ui")
    \/ \E cfg \in LockChoices : CallSaveConfig("ui", cfg)
    \/ SaveConfigLock("ui")
    \/ SaveConfigWrite("ui")
    \/ buildRuleMapCollect("ui")
    \/ buildRuleMapSort("ui")
    \/ \E w \in Observations : MatchWindowRLock("app", w)
    \/ MatchWindowRead("app")

LockSpec == LockInit /\ [][LockNext]_vars

\* a goroutine is between the make of buildRuleMap and the end of its sort
Rebuilding(t) == pc[t] = "Collect"

\* C23: the index changes only in steps of a goroutine that holds the
\* matcher's lock for writing while no MatchWindow call holds it for reading,
\* and a MatchWindow call reads the index only while no rebuild is under
\* way: what it reads is the complete index of the config installed last.
C23_NoPartialIndexSeen ==
    [][/\ ruleMap' # ruleMap =>
             (readers = {} /\ \E t \in Threads : ruleMutex = t /\ ruleMutex' \in {t, NoThread})
       /\ \A t \in Threads :
             (pc[t] = "Match" /\ pc'[t] = "idle") =>
                 /\ \A u \in Threads : ~Rebuilding(u)
                 /\ matchedOn' = buildRuleMap(installed)]_vars

\* C23 witness: a rebuild is under way with part of the rules collected,
\* after a MatchWindow call that found a rule in the complete index before it
C23_Witness ==
    /\ Rebuilding("ui")
    /\ building # <<>>
    /\ DOMAIN ruleMap # {}
    /\ ruleMap # buildRuleMap(config)
    /\ installed # Nil
    /\ matchedOn # NoCall
    /\ matchedOn = buildRuleMap(installed)
    /\ matched # Nil
    /\ readers = {}

(***************************************************************************)
(* Round-trip runs: a persisted config is loaded, and the loaded config is *)
(* saved as it is (the settings page reads it with GetConfig and hands it  *)
(* to SaveConfig)                                                          *)
(***************************************************************************)
\* GetConfig, under the read lock, and SaveConfig with the copy it returned
SaveLoaded(t) ==
    /\ config # Nil
    /\ ruleMutex = NoThread
    /\ CallSaveConfig(t, config)

\* settings as a file can hold them: all set, none of the defaulted ones
\* set, and some
RoundTripGenerals ==
    { GeneralConfig(TRUE, 250, 50, FALSE, "debug", FALSE),
      GeneralConfig(FALSE, 0, 0, TRUE, "", TRUE),
      GeneralConfig(FALSE, 250, 0, TRUE, "warn", FALSE),
      DefaultGeneral }

\* rules as a file can hold them, one with a byte that is not valid UTF-8
\* in its app pattern
RoundTripRuleShapes == CfgRuleShapes \cup { Rule(<<"a", BadByte>>, <<>>, "", TRUE, 1) }

\* a config file written by hand
WrittenByHand(cfg) ==
    [kind |-> "json",
     doc |-> [rules |-> cfg.rules, general |-> cfg.general,
              lastModified |-> cfg.lastModified]]

RoundTripFiles ==
    { WrittenByHand(Config(r, g, "old")) :
        r \in RuleListsOver(RoundTripRuleShapes, MaxCfgRules), g \in RoundTripGenerals }

RoundTripInit ==
    /\ MatcherInit(RoundTripFiles)
    /\ LoggerInit({NoFile}, {NoSiblings}, {FALSE})
    /\ WindowInit /\ CallInit

RoundTripNext ==
    \/ LoadConfigBegin("ui")
    \/ LoadConfigRead("ui")
    \/ SaveLoaded("ui")
    \/ SaveConfig("ui")

RoundTripSpec == RoundTripInit /\ [][RoundTripNext]_vars

\* a SaveConfig call by t returns success in this step
SaveSucceeds(t) == pc[t] = "SaveLock" /\ pc'[t] = "idle" /\ result'[t] = "ok"

\* the file and the live config after the step hold the rules and the
\* settings the file held before it
SameAsPersisted ==
    /\ configFile'.kind = "json"
    /\ configFile'.doc.rules = configFile.doc.rules
    /\ configFile'.doc.general = configFile.doc.general
    /\ config'.rules = configFile.doc.rules
    /\ config'.general = configFile.doc.general

\* C24 as claimed: for every persisted config, loading it and saving the
\* loaded config without edits leaves a persisted and a live config whose
\* rules and general settings equal the persisted original's.
C24_RoundTrip ==
    [][\A t \in Threads :
          (SaveSucceeds(t) /\ configFile.kind = "json") => SameAsPersisted]_vars

\* the settings LoadConfig has a default for are all set
SettingsSet(g) == g.checkInterval # 0 /\ g.switchDelay # 0 /\ g.logLevel # ""

\* the strings of the rules are valid UTF-8
ValidStrings(rules) ==
    \A i \in DOMAIN rules :
        /\ \A j \in DOMAIN rules[i].app : rules[i].app[j] # BadByte
        /\ \A j \in DOMAIN rules[i].window : rules[i].window[j] # BadByte

\* C24 as amended: the same for every persisted config whose checkInterval
\* and switchDelay are not 0, whose logLevel is not empty and whose strings
\* are valid UTF-8.
C24_RoundTripOfSetSettings ==
    [][\A t \in Threads :
          (/\ SaveSucceeds(t)
           /\ configFile.kind = "json"
           /\ SettingsSet(configFile.doc.general)
           /\ ValidStrings(configFile.doc.rules))
              => SameAsPersisted]_vars

\* C24 witness: a config with rules and settings other than the defaults has
\* gone through a load and a save, and is on disk with the stamp of the save
C24_Witness ==
    /\ pc["ui"] = "idle" /\ result["ui"] = "ok"
    /\ configFile.kind = "json"
    /\ configFile.doc.lastModified = PidString
    /\ Len(configFile.doc.rules) = MaxCfgRules
    /\ configFile.doc.general = GeneralConfig(TRUE, 250, 50, FALSE, "debug", FALSE)
    /\ config = Config(configFile.doc.rules, configFile.doc.general, PidString)

(***************************************************************************)
(* Claims about failing rotations                                          *)
(***************************************************************************)
\* rotateLogIfNeeded returned an error: Stat failed, or the re-open did
RotationError(how) == how \in {"stat_failed", "open_failed", "rename_open_failed"}

\* this flush is one in which rotation returns an error, or the first one
\* after a rotation whose re-open failed
AfterFailedRotation ==
    \/ RotationError(lastFlush')
    \/ lastFlush \in {"open_failed", "rename_open_failed"} /\ lastFlush' = "no_file"

\* C25: when rotation fails during a flush, the flush still appends the
\* buffered entries to the live file, and so does the next flush: the buffer
\* is empty afterwards and every entry it held is in the live file.
C25_FailedRotationLosesNothing ==
    [][\A t \in LogThreads :
          (FlushStep(t) /\ logBuffer # <<>> /\ AfterFailedRotation) =>
              /\ logBuffer' = <<>>
              /\ \A i \in DOMAIN logBuffer : InSeq(logBuffer[i], liveLog'.data)]_vars

(***************************************************************************)
(* Claims about a flush that finds nothing to write                        *)
(***************************************************************************)
\* C29: a flush that finds the buffer empty changes nothing: the buffer, the
\* file handle, the live file and every numbered sibling are as before and no
\* generation is rotated away, whatever the size of the live file.
C29_EmptyFlushChangesNothing ==
    [][\A t \in LogThreads :
          (FlushStep(t) /\ logBuffer = <<>>) =>
              /\ logBuffer' = <<>>
              /\ logFile' = logFile
              /\ liveLog' = liveLog
              /\ rotatedLogs' = rotatedLogs
              /\ generations' = generations]_vars

\* C29 witness: Stop's flush has returned, having found the buffer empty, with
\* the handle open on a live file at the rotation threshold
C29_Witness ==
    /\ lpc["app"] = "StopClose"
    /\ lastFlush = "none"
    /\ logBuffer = <<>>
    /\ logFile = "open"
    /\ liveLog.exists /\ NeedsRotation(Len(liveLog.data))
    /\ rotatedLogs = OldSiblings

(***************************************************************************)
(* Fuzzy matching runs: configs whose app patterns are related to the      *)
(* observed names by case, by containment and by one of their words only   *)
(***************************************************************************)
FuzzyRuleShapes ==
    { Rule(a, w, "", TRUE, p) :
          a \in { <<"a", " ", "x">>, <<"A", "B">> }, w \in WindowPatterns, p \in Priorities }
    \cup { Rule(<<"b">>, <<>>, "", TRUE, 1), Rule(<<"z">>, <<>>, "", TRUE, 1) }

FuzzyFiles ==
    { MarshalIndent(Config(r, DefaultGeneral, "old")) :
          r \in RuleListsOver(FuzzyRuleShapes, MaxCfgRules) }

FuzzyInit ==
    /\ MatcherInit(FuzzyFiles)
    /\ LoggerInit({NoFile}, {NoSiblings}, {FALSE})
    /\ WindowInit /\ CallInit

FuzzyNext ==
    \/ LoadConfigBegin("app")
    \/ LoadConfigRead("app")
    \/ \E w \in Observations : MatchWindow("app", w)

FuzzySpec == FuzzyInit /\ [][FuzzyNext]_vars

\* the words of a key: its longest stretches without a space
WordsBetweenSpaces(key) ==
    { SubSeq(key, i, j) :
          <<i, j>> \in { x \in (1..Len(key)) \X (1..Len(key)) :
                            /\ x[1] <= x[2]
                            /\ \A n \in x[1]..x[2] : key[n] # " "
                            /\ x[1] = 1 \/ key[x[1] - 1] = " "
                            /\ x[2] = Len(key) \/ key[x[2] + 1] = " " } }

\* the relation of the claim between an observed app name and an index key,
\* both taken without case and without blanks around them: equal, one
\* contained in the other, or a word of the key contained in the name
Equalish(app, key) == ToLower(TrimSpace(app)) = ToLower(TrimSpace(key))

EitherContains(app, key) ==
    \/ Contains(ToLower(TrimSpace(app)), ToLower(TrimSpace(key)))
    \/ Contains(ToLower(TrimSpace(key)), ToLower(TrimSpace(app)))

WordContained(app, key) ==
    \E word \in WordsBetweenSpaces(ToLower(TrimSpace(key))) :
        Contains(ToLower(TrimSpace(app)), word)

FuzzyRelated(app, key) ==
    Equalish(app, key) \/ EitherContains(app, key) \/ WordContained(app, key)

\* the keys of the index the latest call ran against that are so related to
\* the observed app name
FuzzyKeys == { k \in DOMAIN matchedOn : FuzzyRelated(window.appName, k) }

\* the latest call was not settled by the exact phase, and exactly one key of
\* the index is related to the observed app name
SingleFuzzyCase ==
    /\ Matched
    /\ ~ExactCase
    /\ Cardinality(FuzzyKeys) = 1

\* C30: when the exact phase yields no rule and exactly one key of the index
\* fuzzy-matches the observation's app name, MatchWindow returns the first
\* window-matching rule of that key's list, which no window-matching rule of
\* the list precedes in priority, or nil when the list has none.
C30_SingleFuzzyKey ==
    SingleFuzzyCase =>
        \A k \in FuzzyKeys :
            LET rules == matchedOn[k]
                hits == WindowMatching(rules, window)
            IN IF hits = {} THEN matched = Nil
               ELSE /\ \E i \in hits : rules[i] = matched /\ \A j \in hits : i <= j
                    /\ \A j \in hits : matched.priority <= rules[j].priority

\* C30 witness: the only related key is related by one of its words alone,
\* holds two window-matching rules that the config lists in descending
\* priority, and the call returned the second of the config
C30_Witness ==
    /\ SingleFuzzyCase
    /\ matched # Nil
    /\ \A k \in FuzzyKeys :
          /\ ~Equalish(window.appName, k) /\ ~EitherContains(window.appName, k)
          /\ Cardinality(WindowMatching(matchedOn[k], window)) = 2
    /\ config.rules[1].priority > matched.priority

(***************************************************************************)
(* Clearing the log: the ClearLogs binding, called from the UI while the   *)
(* application logs                                                        *)
(***************************************************************************)
\* ClearLogs calls counted in a run
MaxClears == 2

\* what the file system answers during one ClearLogs: whether os.Remove of an
\* existing live file and the os.OpenFile that follows succeed
ClearAnswers == [remove : BOOLEAN, open : BOOLEAN]

ClearSuccess == [remove |-> TRUE, open |-> TRUE]

\* a plausible bug: a clearing that also deletes the numbered siblings
clearLogsAndSiblings(handle, live, rot, io) ==
    LET closed == IF handle = "nil" THEN "nil" ELSE "closed"
    IN IF live.exists /\ ~io.remove
       THEN [buf |-> <<>>, handle |-> closed, live |-> live, rot |-> rot,
             err |-> "remove_failed"]
       ELSE IF ~io.open
       THEN [buf |-> <<>>, handle |-> "nil", live |-> NoFile, rot |-> NoSiblings,
             err |-> "open_failed"]
       ELSE [buf |-> <<>>, handle |-> "open", live |-> File(<<>>), rot |-> NoSiblings,
             err |-> "nil"]

\* LoggerService.ClearLogs between Lock and the deferred Unlock: the buffer
\* is truncated and the handle closed; os.Remove of a file that is not there
\* is no error, any other failure returns with the file as it was; the file
\* is then created anew, and a failure there leaves ls.logFile nil
clearLogs(handle, live, rot, io) ==
    LET closed == IF handle = "nil" THEN "nil" ELSE "closed"
    IN IF live.exists /\ ~io.remove
       THEN [buf |-> <<>>, handle |-> closed, live |-> live, rot |-> rot,
             err |-> "remove_failed"]
       ELSE IF ~io.open
       THEN [buf |-> <<>>, handle |-> "nil", live |-> NoFile, rot |-> rot,
             err |-> "open_failed"]
       ELSE [buf |-> <<>>, handle |-> "open", live |-> File(<<>>), rot |-> rot,
             err |-> "nil"]

\* App.ClearLogs: LoggerService.ClearLogs and, when that returned nil,
\* LogInfo up to log's Lock
ClearLogs(t) ==
    /\ t \in Loggers
    /\ lpc[t] = "idle"
    /\ lpc["app"] # "idle"
    /\ bufferMutex = NoThread
    /\ cleared.n < MaxClears
    /\ nextEntry <= maxLogSize + (IF ioFaults THEN MaxFaultyEntries ELSE MaxEntries)
    /\ \E io \in (IF ioFaults THEN ClearAnswers ELSE {ClearSuccess}) :
         LET c == clearLogs(logFile, liveLog, rotatedLogs, io)
         IN /\ logBuffer' = c.buf
            /\ logFile' = c.handle
            /\ liveLog' = c.live
            /\ rotatedLogs' = c.rot
            /\ cleared' = [n |-> cleared.n + 1, err |-> c.err,
                           buffered |-> Len(logBuffer), size |-> Len(liveLog.data)]
            /\ IF c.err = "nil" /\ enableLogging
               THEN /\ lentry' = [lentry EXCEPT ![t] = nextEntry]
                    /\ nextEntry' = nextEntry + 1
                    /\ lpc' = [lpc EXCEPT ![t] = "LogLock"]
                    /\ lret' = [lret EXCEPT ![t] = lpc[t]]
               ELSE UNCHANGED <<lentry, nextEntry, lpc, lret>>
    /\ UNCHANGED <<bufferMutex, enableLogging, flushTicker, stopChan, generations,
                   lastFlush, ioFaults>>
    /\ UNCHANGED <<matcherVars, windowVars, ruleCall, recent, stats, skipped, cbStep,
                   lastSwitch, switchLog>>

ClearInit ==
    /\ MatcherInit({AbsentFile})
    /\ LoggerInit({NoFile, OldLog}, {OldSiblings}, BOOLEAN)
    /\ WindowInit /\ CallInit

\* the goroutine serving the binding is the second of the logging goroutines
ClearNext ==
    \/ Start("app")
    \/ LogCall("app")
    \/ ClearLogs("poll")
    \/ \E t \in LogThreads : LogAppend(t)
    \/ TimerTick(FlushRoutine)
    \/ StopBegin("app")
    \/ \E t \in LogThreads : Flush(t)
    \/ StopClose("app")

ClearSpec == ClearInit /\ [][ClearNext]_vars

\* a ClearLogs call runs from Lock to Unlock in this step
ClearStep == cleared'.n = cleared.n + 1

\* C28: a ClearLogs call leaves the buffer empty and every numbered sibling
\* as it was, present or absent and with the same content; a call that
\* returns nil leaves a live file that exists and is empty.
C28_ClearLogsFrame ==
    [][ClearStep =>
          /\ logBuffer' = <<>>
          /\ rotatedLogs' = rotatedLogs
          /\ cleared'.err = "nil" => (liveLog'.exists /\ liveLog'.data = <<>>)]_vars

\* C28 witness: a ClearLogs call that found entries in the buffer and in the
\* live file has just returned nil, next to the siblings of an earlier run
C28_Witness ==
    /\ cleared.n > 0
    /\ cleared.err = "nil"
    /\ cleared.buffered > 0 /\ cleared.size > 0
    /\ lpc["poll"] = "LogLock"
    /\ logBuffer = <<>>
    /\ liveLog = File(<<>>)
    /\ rotatedLogs = OldSiblings

(***************************************************************************)
(* The application's callbacks: the poll loop hands a changed observation  *)
(* to onWindowChange, which records it, matches it and, on a match, calls  *)
(* onRuleMatch: record, switch, record the outcome. The goroutine of the   *)
(* loop is "loop1" to the window service and "poll" to the logger.         *)
(***************************************************************************)
\* calls of the SwitchInput binding counted in a run
MaxSwitches == 2

\* entries created in a run of the callbacks
MaxGlueEntries == 5

\* a record call of goroutine t up to log's Lock (LogWindowChange,
\* LogRuleMatch, LogInputSwitch): nothing when logging is disabled
RecordCall(t) ==
    IF enableLogging
    THEN /\ lentry' = [lentry EXCEPT ![t] = nextEntry]
         /\ nextEntry' = nextEntry + 1
         /\ lpc' = [lpc EXCEPT ![t] = "LogLock"]
         /\ lret' = [lret EXCEPT ![t] = lpc[t]]
         /\ skipped' = skipped
    ELSE /\ skipped' = (IF skipped < MaxSkipped THEN skipped + 1 ELSE skipped)
         /\ UNCHANGED <<lentry, nextEntry, lpc, lret>>

\* what a callback's record call leaves alone in the logger
RecordFrame ==
    UNCHANGED <<logBuffer, bufferMutex, logFile, liveLog, rotatedLogs, enableLogging,
                flushTicker, stopChan, generations, lastFlush, ioFaults>>

\* the callback of loop1 is at the given statement, every call before it
\* having returned
CallbackAt(step) ==
    /\ ~Panicked
    /\ loop["loop1"] = "callback"
    /\ cbStep = step
    /\ lpc["poll"] = "idle"
    /\ nextEntry <= maxLogSize + MaxGlueEntries

\* onWindowChange, first statement: LogWindowChange (the window is never nil
\* here: the loop calls back only with an observation)
onWindowChangeLog ==
    /\ CallbackAt("none")
    /\ cbWindow["loop1"] # Nil
    /\ RecordCall("poll")
    /\ cbStep' = "MatchWindow"
    /\ RecordFrame
    /\ UNCHANGED <<matcherVars, windowVars, ruleCall, recent, stats, cleared, lastSwitch,
                   switchLog>>

\* onWindowChange: MatchWindow under the read lock; on a rule, onRuleMatch
onWindowChangeMatch ==
    /\ CallbackAt("MatchWindow")
    /\ ruleMutex = NoThread
    /\ window' = cbWindow["loop1"]
    /\ matchedOn' = ruleMap
    /\ matched' \in MatchWindowResults(ruleMap, cbWindow["loop1"])
    /\ cbStep' = IF matched' # Nil THEN "LogRuleMatch" ELSE "return"
    /\ UNCHANGED <<config, ruleMap, configFile, ruleMutex, pc, saveArg, saveRet, result,
                   installed, readers, building>>
    /\ UNCHANGED <<loggerVars, windowVars, ruleCall, recent, stats, skipped, cleared,
                   lastSwitch, switchLog>>

\* onRuleMatch up to the Sleep: GetConfig under the read lock (nil returns
\* at once), then LogRuleMatch
onRuleMatchLog ==
    /\ CallbackAt("LogRuleMatch")
    /\ ruleMutex = NoThread
    /\ IF config = Nil
       THEN /\ cbStep' = "return"
            /\ UNCHANGED <<lentry, nextEntry, lpc, lret, skipped>>
       ELSE /\ RecordCall("poll")
            /\ cbStep' = "SwitchInput"
    /\ RecordFrame
    /\ UNCHANGED <<matcherVars, windowVars, ruleCall, recent, stats, cleared, lastSwitch,
                   switchLog>>

\* one more call of inputService.SwitchInput: who made it, with which input
\* id, whether it returned nil, and during which notification
Switched(by, input, ok, call) ==
    [n |-> lastSwitch.n + 1, by |-> by, input |-> input, ok |-> ok, call |-> call]

\* onRuleMatch: after the Sleep, a.inputService.SwitchInput(rule.Input),
\* which runs im-select and returns its error
onRuleMatchSwitch ==
    /\ CallbackAt("SwitchInput")
    /\ \E ok \in BOOLEAN : lastSwitch' = Switched("poll", matched.input, ok, callbacks)
    /\ cbStep' = "LogInputSwitch"
    /\ UNCHANGED <<matcherVars, loggerVars, windowVars>>
    /\ UNCHANGED <<ruleCall, recent, stats, skipped, cleared, switchLog>>

\* onRuleMatch: LogInputSwitch with switch_failed and the error, or with
\* switch_success
onRuleMatchLogSwitch ==
    /\ CallbackAt("LogInputSwitch")
    /\ RecordCall("poll")
    /\ switchLog' = IF enableLogging
                    THEN [entry |-> nextEntry,
                          action |-> IF lastSwitch.ok THEN "switch_success"
                                     ELSE "switch_failed",
                          switch |-> lastSwitch.n,
                          entries |-> IF switchLog.entry # 0 /\ switchLog.switch = lastSwitch.n
                                      THEN switchLog.entries + 1 ELSE 1]
                    ELSE switchLog
    /\ cbStep' = "return"
    /\ RecordFrame
    /\ UNCHANGED <<matcherVars, windowVars, ruleCall, recent, stats, cleared, lastSwitch>>

\* onWindowChange returns and the goroutine is back at its select
onWindowChangeReturn ==
    /\ CallbackAt("return")
    /\ loop' = [loop EXCEPT !["loop1"] = "select"]
    /\ cbWindow' = [cbWindow EXCEPT !["loop1"] = Nil]
    /\ cbStep' = "none"
    /\ UNCHANGED <<lastWindow, wsStopChan, isRunning, polled, ticks, stopTick, callbacks>>
    /\ UNCHANGED <<matcherVars, loggerVars>>
    /\ UNCHANGED <<ruleCall, recent, stats, skipped, cleared, lastSwitch, switchLog>>

\* the SwitchInput binding, called from the UI once startup has run:
\* a.inputService.SwitchInput(inputID), its error returned to the UI
SwitchInput(inputID) ==
    /\ ~Panicked
    /\ loop["loop1"] # "none"
    /\ lastSwitch.n < MaxSwitches
    /\ \E ok \in BOOLEAN : lastSwitch' = Switched("ui", inputID, ok, 0)
    /\ UNCHANGED <<matcherVars, loggerVars, windowVars>>
    /\ UNCHANGED <<ruleCall, recent, stats, skipped, cleared, cbStep, switchLog>>

\* the config the application starts with: one rule for the app "ab" on
\* windows named "w", logging enabled or not
GlueFiles ==
    { MarshalIndent(Config(<<Rule(<<"a", "b">>, <<"w">>, "in1", TRUE, 1)>>,
                           [DefaultGeneral EXCEPT !.enableLogging = e], "old")) :
        e \in BOOLEAN }

GlueInit ==
    /\ MatcherInit(GlueFiles)
    /\ LoggerInit({NoFile}, {NoSiblings}, {FALSE})
    /\ WindowInit /\ CallInit

\* a tick of loop1; the process id of the observation plays no part here
GlueTick == Tick("loop1") /\ (polled' = QueryFailed \/ polled'.pid = 1)

\* the application's own record calls once the loop runs: the last LogInfo
\* of startup and those of the bound methods
GlueLog == nextEntry <= maxLogSize + MaxGlueEntries /\ RunningLog("app")

\* startup in its order, then the loop with its callbacks next to the
\* application's own record calls, the flush timer and the UI
GlueNext ==
    \/ Start("app")
    \/ StartupLogInfo
    \/ StartupLoadConfig
    \/ StartupSetLogging
    \/ StartupMonitoring
    \/ GlueLog
    \/ \E t \in LogThreads : LogAppend(t)
    \/ TimerTick(FlushRoutine)
    \/ \E t \in LogThreads : Flush(t)
    \/ GlueTick
    \/ onWindowChangeLog
    \/ onWindowChangeMatch
    \/ onRuleMatchLog
    \/ onRuleMatchSwitch
    \/ onRuleMatchLogSwitch
    \/ onWindowChangeReturn
    \/ SwitchInput("in2")

GlueSpec == GlueInit /\ [][GlueNext]_vars

(***************************************************************************)
(* Claims about the callbacks                                              *)
(***************************************************************************)
\* inputService.SwitchInput is called in this step
SwitchStep == lastSwitch'.n = lastSwitch.n + 1

\* the callback of loop1 returns in this step, having switched
ReturnsHavingSwitched ==
    /\ loop["loop1"] = "callback" /\ loop'["loop1"] = "select"
    /\ lastSwitch.n > 0 /\ lastSwitch.by = "poll" /\ lastSwitch.call = callbacks

\* goroutine t waits for the buffer mutex inside a record call, and the
\* mutex is held by a goroutine that waits for it too, inside the flush its
\* own record call made: nothing will release it
BlockedForGood(t) ==
    /\ lpc[t] \in {"LogLock", "FlushLock"}
    /\ \E u \in Loggers : FlushingFromLog(u) /\ bufferMutex = u

\* the callback has switched and called LogInputSwitch, which cannot return
OutcomeCallBlocked ==
    /\ loop["loop1"] = "callback" /\ cbStep = "return"
    /\ lastSwitch.n > 0 /\ lastSwitch.by = "poll" /\ lastSwitch.call = callbacks
    /\ BlockedForGood("poll")

\* C26: inputService.SwitchInput is called only by the callback of a change
\* notification whose MatchWindow call returned a rule, with that rule's
\* input id, and once per notification at most; and with logging enabled the
\* LogInputSwitch call that follows returns, so that when the callback
\* returns there is exactly one outcome entry for the call, recorded, with
\* switch_success for nil and switch_failed for an error.
C26_SwitchOnlyOnMatch ==
    [][/\ SwitchStep =>
              /\ lastSwitch'.by = "poll"
              /\ loop["loop1"] = "callback"
              /\ window = cbWindow["loop1"] /\ matched # Nil
              /\ lastSwitch'.input = matched.input
              /\ lastSwitch.n > 0 => lastSwitch.call # lastSwitch'.call
       /\ (ReturnsHavingSwitched /\ enableLogging) =>
              /\ switchLog.entry # 0
              /\ switchLog.switch = lastSwitch.n
              /\ switchLog.entries = 1
              /\ switchLog.action = (IF lastSwitch.ok THEN "switch_success"
                                     ELSE "switch_failed")
              /\ switchLog.entry \in Recorded
       /\ ~OutcomeCallBlocked']_vars

\* C27: once a SwitchInput call of the callback has returned an error, the
\* process has not ended, the loop's goroutine is still in StartMonitoring,
\* and the callback is not held for good in the record call that follows, so
\* that it returns to the select and the next ticks are taken.
C27_FailedSwitchNotFatal ==
    (lastSwitch.n > 0 /\ lastSwitch.by = "poll" /\ ~lastSwitch.ok) =>
        /\ ~Panicked
        /\ Monitoring("loop1")
        /\ ~(lastSwitch.call = callbacks /\ BlockedForGood("poll"))

(***************************************************************************)
(* Index runs: configs with disabled rules, blank and repeated tokens are  *)
(* loaded and saved, and windows are matched                               *)
(***************************************************************************)
IndexRuleShapes ==
    { Rule(a, <<>>, "", e, p) :
          a \in { <<"a", ",", " ", ",", "b">>, <<"a", ",", "a">> },
          e \in BOOLEAN, p \in Priorities }
    \cup { Rule(<<" ">>, <<>>, "", TRUE, 1) }

IndexFiles ==
    { MarshalIndent(Config(r, DefaultGeneral, "old")) :
          r \in RuleListsOver(IndexRuleShapes, MaxCfgRules) }

\* the config handed to SaveConfig in these runs: a disabled rule that would
\* come first and an enabled one, on the same tokens, one of them blank
IndexSaved ==
    { Config(Labelled(<<Rule(<<"a", ",", " ", ",", "b">>, <<>>, "", FALSE, 1),
                        Rule(<<"b", ",", "a">>, <<>>, "", TRUE, 2)>>),
             DefaultGeneral, "old") }

IndexInit ==
    /\ MatcherInit(IndexFiles)
    /\ LoggerInit({NoFile}, {NoSiblings}, {FALSE})
    /\ WindowInit /\ CallInit

IndexNext ==
    \/ LoadConfigBegin("app")
    \/ LoadConfigRead("app")
    \/ \E cfg \in IndexSaved : CallSaveConfig("app", cfg)
    \/ SaveConfig("app")
    \/ \E w \in Observations : MatchWindow("app", w)

IndexSpec == IndexInit /\ [][IndexNext]_vars

\* the tokens of an app pattern as the claim has them: its stretches between
\* commas, without the blanks around them, the empty ones left out
CommaTokens(pattern) ==
    { TrimSpace(SubSeq(pattern, x[1], x[2])) :
          x \in { y \in (1..Len(pattern)) \X (1..Len(pattern)) :
                    /\ y[1] <= y[2]
                    /\ \A n \in y[1]..y[2] : pattern[n] # ","
                    /\ y[1] = 1 \/ pattern[y[1] - 1] = ","
                    /\ y[2] = Len(pattern) \/ pattern[y[2] + 1] = "," } } \ {<<>>}

\* the enabled rules of a rule list
EnabledRules(rules) == { rules[i] : i \in { n \in DOMAIN rules : rules[n].enabled } }

\* the index the claim describes for a rule list
IndexAsClaimed(m, rules) ==
    /\ DOMAIN m = UNION { CommaTokens(r.app) : r \in EnabledRules(rules) }
    /\ \A k \in DOMAIN m :
          /\ { m[k][n] : n \in DOMAIN m[k] } =
                 { r \in EnabledRules(rules) : k \in CommaTokens(r.app) }
          /\ \A x, y \in DOMAIN m[k] : x < y => m[k][x].priority <= m[k][y].priority
          /\ \A n \in DOMAIN m[k] : m[k][n].enabled

\* C31: once a config is installed, the keys of the index are exactly the
\* non-empty trimmed comma-separated tokens of the app patterns of its
\* enabled rules, each key's list holds exactly the enabled rules carrying
\* the key, in ascending priority, no disabled rule is in the index, and the
\* rule a MatchWindow call returns is enabled.
C31_IndexOfEnabledRules ==
    /\ config # Nil => IndexAsClaimed(ruleMap, config.rules)
    /\ matched # Nil => matched.enabled

\* C31 witness: a call has returned an enabled rule from the index of a
\* config that also holds a disabled rule carrying the observed app name,
\* with a priority that would have put it first
C31_Witness ==
    /\ config # Nil
    /\ matched # Nil
    /\ matchedOn = ruleMap
    /\ \E i \in DOMAIN config.rules :
          /\ ~config.rules[i].enabled
          /\ window.appName \in CommaTokens(config.rules[i].app)
          /\ config.rules[i].priority < matched.priority

(***************************************************************************)
(* Claims about entries reaching the file                                  *)
(***************************************************************************)
\* Scheduling with the flush timer: besides the above, the running ticker
\* keeps firing and flushRoutine takes its ticks
TimedLogFairness == LogFairness /\ WF_vars(TimerTick(FlushRoutine))

TimedLogSpec == LogSpec /\ TimedLogFairness

\* the entries a run can create
EntryIds == (maxLogSize + 1)..(maxLogSize + MaxEntries)

\* the service is started and not stopped
Started == logFile = "open" /\ stopChan = "open"

\* C32: on a file system that does not fail, every entry that is in the
\* buffer while the service is started is at some later point in the log
\* file, the timer being fair.
C32_RecordedIsWritten ==
    \A e \in EntryIds : (InSeq(e, logBuffer) /\ Started) ~> Written(e)


(***************************************************************************)
(* Claims about the poll pipeline as a whole                               *)
(***************************************************************************)
\* a focus change has been detected by loop1 and its callback has not
\* returned yet
HandlingChange == loop["loop1"] = "callback" /\ cbWindow["loop1"] # Nil

\* C33: with collaborators that always return, the goroutine of the poll
\* loop is never held for good while it handles a detected change: every
\* record call of the callback can return, whatever the number of entries in
\* the buffer, so that the change is handled in full and the loop returns to
\* its select for the later ticks.
C33_PipelineNeverBlocks == HandlingChange => ~BlockedForGood("poll")


(***************************************************************************)
(* Claims about the config GetConfig hands out                             *)
(***************************************************************************)
\* C34: what AddRule, UpdateRule and DeleteRule do to the config GetConfig
\* returned (the append, the assignment of an element, the removal in place),
\* before SaveConfig is called, leaves the live config's rule list as it was.
C34_SnapshotIndependent ==
    [][(RuleCallStep /\ config # Nil) => config'.rules = config.rules]_vars

\* the first AddRule, UpdateRule or DeleteRule call of the run has returned
\* an error, and no call since has returned success: until then every load
\* and save kept the live config equal to the config last installed, which
\* is therefore the live config of before the call
FirstEditFailed ==
    /\ MatcherAtRest
    /\ ruleCall.n = 1
    /\ result[ruleCall.by] = "error"
    /\ config # Nil

\* C35: an AddRule, UpdateRule or DeleteRule call that returns an error
\* leaves the live config's rule list and the rule index as they were before
\* the call, and with them the result of every later MatchWindow.
C35_FailedEditChangesNothing ==
    FirstEditFailed =>
        /\ config.rules = installed.rules
        /\ ruleMap = buildRuleMap(installed)


(***************************************************************************)
(* Concurrent editing runs: startup loads the config, then two goroutines  *)
(* serving UI calls add rules                                              *)
(***************************************************************************)
AddFiles == { MarshalIndent(c) : c \in CfgChoices }

AddInit ==
    /\ MatcherInit(AddFiles)
    /\ LoggerInit({NoFile}, {NoSiblings}, {FALSE})
    /\ WindowInit /\ CallInit

\* startup's LoadConfig comes before the UI is served
StartupLoad == ruleCall.n = 0 /\ LoadConfigBegin("app")

AddNext ==
    \/ StartupLoad
    \/ LoadConfigRead("app")
    \/ \E t \in Threads, rule \in AddedRules : AddRule(t, rule)
    \/ \E t \in Threads : SaveConfig(t)

AddSpec == AddInit /\ [][AddNext]_vars

\* the AddRule call of goroutine t returns nil in this step: its SaveConfig
\* has written the file and installed the config
AddRuleSucceeds(t) ==
    /\ pc[t] = "SaveLock" /\ saveRet[t] = "idle"
    /\ pc'[t] = "idle" /\ result'[t] = "ok"

\* C36: an AddRule call that returns success leaves the live config, and the
\* config file, with the rules that were there when it returned plus its
\* own, so that after two concurrent calls both rules are there.
C36_EditsNotLost ==
    [][\A t \in Threads :
          AddRuleSucceeds(t) =>
              /\ Len(config'.rules) = Len(config.rules) + 1
              /\ SubSeq(config'.rules, 1, Len(config.rules)) = config.rules
              /\ Unmarshal(configFile').ok
              /\ Unmarshal(configFile').config.rules = config'.rules]_vars


(***************************************************************************)
(* Claims about stopping                                                   *)
(***************************************************************************)
\* C37: once startup has started the loop, StopMonitoring can be invoked
\* again after the stop channel has been closed, by SetRunning(false) or by
\* onShutdown: the second call changes nothing and the process goes on.
C37_RepeatedStopSafe ==
    loop["loop1"] # "none" => wsStopChan \in {"open", "closed"}

\* the tick taken in this step fired after StopMonitoring returned: the
\* channel is closed, and since then the loops have taken as many ticks as
\* their tickers could hold when it was closed (a ticker's channel holds one)
TickFiredAfterStop ==
    /\ TickStep
    /\ wsStopChan = "closed"
    /\ ticks >= stopTick + Cardinality(Loops)

\* C38: a tick that fires after StopMonitoring has returned invokes no
\* callback, whichever goroutine takes it.
C38_NoCallbackAfterStop ==
    [][TickFiredAfterStop => callbacks' = callbacks]_vars


(***************************************************************************)
(* Claims about the order of the log                                       *)
(***************************************************************************)
\* Ordering runs: the logging runs over a live file at the rotation
\* threshold and the siblings of an earlier run, on a file system that
\* works and on one that may fail
OrderInit ==
    /\ MatcherInit({AbsentFile})
    /\ LoggerInit({OldLog}, {OldSiblings}, BOOLEAN)
    /\ WindowInit /\ CallInit

OrderSpec == OrderInit /\ [][LogNext]_vars

\* the siblings' contents from .k down to .1, the oldest generation first
RECURSIVE OldestFirst(_, _)
OldestFirst(rot, k) ==
    IF k < 1 THEN <<>> ELSE rot[k].data \o OldestFirst(rot, k - 1)

\* the entries of a sequence that a record call made (the siblings an earlier
\* run left hold placeholders numbered 0)
Entries(seq) == LET IsEntry(e) == e >= 1 IN SelectSeq(seq, IsEntry)

\* the log as read from the oldest sibling to the live file
LogAsRead == Entries(OldestFirst(rotatedLogs, maxLogFiles + 1) \o liveLog.data)

\* the log as read, followed by the entries still in the buffer: the order
\* in which record calls appended them
InRecordedOrder == LogAsRead \o logBuffer

NoRepeat(seq) == Cardinality({ seq[i] : i \in DOMAIN seq }) = Len(seq)

\* later keeps the entries of earlier it still has, in their order, and has
\* its new entries behind them
OrderKept(earlier, later) ==
    LET StillThere(e) == InSeq(e, later)
    IN \A kept \in {SelectSeq(earlier, StillThere)} :
           /\ Len(kept) <= Len(later)
           /\ SubSeq(later, 1, Len(kept)) = kept
           /\ \A i \in (Len(kept) + 1)..Len(later) : ~InSeq(later[i], earlier)

====
